---- MODULE Spec2Model ----
(***************************************************************************)
(* Proof & Quote Ledger of the Cashu wallet service (service.ts, db.ts)    *)
(* with its Quote Monitoring Engine (QuotePoolManager).                    *)
(*                                                                         *)
(* One JavaScript event loop: every public operation is an async function, *)
(* modelled as a task whose atomic segments are the code between two       *)
(* network awaits.  A remote call has three phases: the request is sent    *)
(* (pc "..._req"), the mint processes it (pc "..._rsp", reply stored in    *)
(* the task), the continuation runs.  Awaits that resolve without I/O      *)
(* (ensureWalletInitialized on an existing wallet) do not end a segment.   *)
(*                                                                         *)
(* The Protocol Client and the mint behind it are outside the repository.  *)
(* The mint is an honest Cashu mint: a quote goes UNPAID, PAID, ISSUED and *)
(* is issued once; a proof is spent once.  Every request may fail.  Which  *)
(* proofs the client selects for an amount depends on the denominations at *)
(* hand: the model lets it take any selection that covers the amount with  *)
(* no proof to spare.  A write to the database may throw.                  *)
(***************************************************************************)
EXTENDS Integers, Sequences, FiniteSets, Bags, TLC

\* ---- bounds of the model ------------------------------------------------
MaxSecret == 4      \* secrets the Protocol Client can generate
MaxQuote == 2       \* quote ids the mint can assign
MaxAmount == 2      \* largest amount of a call
MaxTime == 2        \* clock values 0..MaxTime
MaxTasks == 2       \* operations in flight at the same time
MaxCalls == 3       \* calls of public operations and timer firings in one run
QuoteTTL == 1       \* seconds from the creation of a quote to its expiry
MaxTracked == 6     \* quotes tracked at once where the cap on the checks matters

\* ---- program constants --------------------------------------------------
maxConcurrentChecks == 5
maxAttempts == 60

mintUrl == "mint"

Secrets == 1..MaxSecret
QuoteIds == 1..MaxQuote

\* ---- state --------------------------------------------------------------
VARIABLES
    db,             \* WalletDb: [proofs: set of cashu_proofs rows, quotes: set of cashu_mint_quotes rows,
                    \*   migrations: ids in cashu_migrations, schema: ids of the upgrades in effect,
                    \*   file: state of the storage file, conn: state of the connection]
    rQuotes,        \* the mint's own state of each quote id
    rSpent,         \* secrets the mint has seen redeemed
    nextSecret,     \* next secret the Protocol Client generates
    poolQuotes,     \* QuotePoolManager.quotes (insertion order)
    isRunning,      \* QuotePoolManager.isRunning
    checkInterval,  \* QuotePoolManager.checkInterval is set
    now,            \* Date.now() in seconds
    cashuWallet,    \* CashuWalletService.cashuWallet: "null", "created", "loaded"
    tasks,          \* bag of operations in flight
    calls,          \* number of calls and timer firings so far
    ev,             \* the last step taken (history)
    engineMints,    \* per quote id: engine-initiated mintProofs calls that returned (history)
    lastCheck       \* the last checkMintQuote a caller got a result from (history)

vars == <<db, rQuotes, rSpent, nextSecret, poolQuotes, isRunning, checkInterval,
          now, cashuWallet, tasks, calls, ev, engineMints, lastCheck>>
remoteVars == <<rQuotes, rSpent, nextSecret>>
poolVars == <<poolQuotes, isRunning, checkInterval>>

\* ---- WalletDb (db.ts) ---------------------------------------------------
RECURSIVE sumProofs(_)
sumProofs(proofs) ==
    IF proofs = {} THEN 0
    ELSE LET p == CHOOSE x \in proofs : TRUE
         IN  p.amount + sumProofs(proofs \ {p})

getProofs(d, mint, state) ==
    {r \in d.proofs : r.mintUrl = mint /\ r.state = state}

saveProofs(d, proofs, mint, state) ==
    [d EXCEPT !.proofs =
        {r \in @ : ~ \E p \in proofs : r.mintUrl = mint /\ r.secret = p.secret}
        \cup {[mintUrl |-> mint, secret |-> p.secret, amount |-> p.amount,
               state |-> state] : p \in proofs}]

updateProofState(d, secret, state) ==
    [d EXCEPT !.proofs =
        {IF r.secret = secret THEN [r EXCEPT !.state = state] ELSE r : r \in @}]

saveMintQuote(d, quote) ==
    [d EXCEPT !.quotes =
        {r \in @ : ~ (r.mintUrl = quote.mintUrl /\ r.quote = quote.quote)}
        \cup {quote}]

\* An update that writes nothing.
updateMintQuoteStateSkipped(d, mint, quote, state) == d

\* An update that is not a plain overwrite: it also moves the expiry.
updateMintQuoteStateAndExpiry(d, mint, quote, state) ==
    [d EXCEPT !.quotes =
        {IF r.mintUrl = mint /\ r.quote = quote
            THEN [r EXCEPT !.state = state, !.expiry = @ + 1] ELSE r : r \in @}]

updateMintQuoteState(d, mint, quote, state) ==
    [d EXCEPT !.quotes =
        {IF r.mintUrl = mint /\ r.quote = quote
            THEN [r EXCEPT !.state = state] ELSE r : r \in @}]

dbGetBalance(d, mint) ==
    sumProofs({r \in d.proofs : r.state = "ready" /\ r.mintUrl = mint})

\* One statement of a write sequence.
ApplyWrite(d, w) ==
    CASE w.kind = "updateProofState" -> updateProofState(d, w.secret, w.state)
      [] w.kind = "saveProofs" -> saveProofs(d, w.proofs, mintUrl, w.state)
      [] w.kind = "updateMintQuoteState" -> updateMintQuoteState(d, mintUrl, w.quote, w.state)
      [] w.kind = "exec" -> [d EXCEPT !.schema = @ \cup {w.id}]
      [] w.kind = "marker" -> [d EXCEPT !.migrations = @ \cup {w.id}]

RECURSIVE ApplyWrites(_, _, _)
ApplyWrites(d, ws, k) ==
    IF k = 0 THEN d ELSE ApplyWrite(ApplyWrites(d, ws, k - 1), ws[k])

\* A transaction that does not roll back: what ran before the failing
\* statement stays.
transactionWithoutRollback(d, ws, failAt) ==
    IF failAt = 0 THEN ApplyWrites(d, ws, Len(ws)) ELSE ApplyWrites(d, ws, failAt - 1)

\* SqliteDb.transaction: BEGIN, the statements, COMMIT; a statement that
\* throws (failAt = its index, 0 = none) rolls everything back.
transaction(d, ws, failAt) ==
    IF failAt = 0 THEN ApplyWrites(d, ws, Len(ws)) ELSE d

\* Statements run one by one outside a transaction: each persists
\* immediately, the one that throws and those after it do not.
autocommit(d, ws, failAt) ==
    IF failAt = 0 THEN ApplyWrites(d, ws, Len(ws)) ELSE ApplyWrites(d, ws, failAt - 1)

WUpd(secret, state) ==
    [kind |-> "updateProofState", secret |-> secret, proofs |-> {}, quote |-> 0, state |-> state]
WSave(proofs, state) ==
    [kind |-> "saveProofs", secret |-> 0, proofs |-> proofs, quote |-> 0, state |-> state]
WQuote(quote, state) ==
    [kind |-> "updateMintQuoteState", secret |-> 0, proofs |-> {}, quote |-> quote, state |-> state]

\* ---- SqliteDb: opening the store (db.ts 10-106) ---------------------------
\* The ids of MIGRATIONS (lines 10-47), in order.
MIGRATIONS == <<"001_initial">>

MigrationIds == {MIGRATIONS[k] : k \in 1..Len(MIGRATIONS)}

\* A new database file: no table, no row.
EmptyFile(conn) ==
    [proofs |-> {}, quotes |-> {}, migrations |-> {}, schema |-> {},
     file |-> "ok", conn |-> conn]

\* The database of a service just constructed on a new file.
NewDb ==
    [proofs |-> {}, quotes |-> {}, migrations |-> MigrationIds, schema |-> MigrationIds,
     file |-> "ok", conn |-> "open"]

WExec(id) == [kind |-> "exec", id |-> id]
WMarker(id) == [kind |-> "marker", id |-> id]

\* An upgrade that records no marker.
MigrationWritesWithoutMarker(id) == <<WExec(id)>>

\* Lines 96-102: the statements of the transaction of one migration.
MigrationWrites(id) == <<WExec(id), WMarker(id)>>

\* Where an attempt to open throws: nowhere (at 0), in the statements
\* before the loop (at -1), or in statement stmt of the transaction of
\* MIGRATIONS[at], should that transaction run.
Failures ==
    {[at |-> 0, stmt |-> 0], [at |-> -1, stmt |-> 0]}
    \cup {[at |-> k, stmt |-> i] : k \in 1..Len(MIGRATIONS), i \in 1..2}

\* Lines 92-105 from MIGRATIONS[k] on; ran lists the upgrades committed.
RECURSIVE runMigrations(_, _, _, _)
runMigrations(d, k, f, ran) ==
    IF k > Len(MIGRATIONS) THEN [d |-> d, ok |-> TRUE, ran |-> ran]
    ELSE IF MIGRATIONS[k] \in d.migrations THEN runMigrations(d, k + 1, f, ran)
    ELSE IF f.at = k
         THEN [d |-> transaction(d, MigrationWrites(MIGRATIONS[k]), f.stmt),
               ok |-> FALSE, ran |-> ran]
    ELSE runMigrations(transaction(d, MigrationWrites(MIGRATIONS[k]), 0), k + 1, f,
                       Append(ran, MIGRATIONS[k]))

\* new Database(filename, {create: true}) and initialize (lines 58-59,
\* 73-106): a file that cannot be read or is no database makes it throw,
\* a missing file is created.
attempt(d, f) ==
    IF d.file \in {"corrupt", "unreadable"} THEN [d |-> d, ok |-> FALSE, ran |-> <<>>]
    ELSE LET d0 == IF d.file = "absent" THEN EmptyFile(d.conn) ELSE d
         IN  IF f.at = -1 THEN [d |-> d0, ok |-> FALSE, ran |-> <<>>]
             ELSE runMigrations(d0, 1, f, <<>>)

\* unlinkSync in its try (lines 63-67): the file is gone, or the error is
\* swallowed and the file stays.
unlink(d, removed) ==
    IF removed
    THEN [d EXCEPT !.file = "absent", !.proofs = {}, !.quotes = {},
                   !.migrations = {}, !.schema = {}]
    ELSE d

\* The constructor (lines 56-71): a second attempt after the catch; what
\* the second attempt throws leaves the constructor.
openDb(d, f1, removed, f2) ==
    LET a1 == attempt(d, f1)
        a2 == attempt(unlink(a1.d, removed), f2)
    IN  IF a1.ok
        THEN [d |-> [a1.d EXCEPT !.conn = "open"], ok |-> TRUE, caught |-> FALSE,
              ran1 |-> a1.ran, ran2 |-> <<>>]
        ELSE [d |-> [a2.d EXCEPT !.conn = IF a2.ok THEN "open" ELSE "aborted"],
              ok |-> a2.ok, caught |-> TRUE, ran1 |-> a1.ran, ran2 |-> a2.ran]

\* The rows of a query in row order (ascending secret).
RECURSIVE RowOrder(_)
RowOrder(proofs) ==
    IF proofs = {} THEN <<>>
    ELSE LET p == CHOOSE x \in proofs : \A y \in proofs : x.secret <= y.secret
         IN  <<p>> \o RowOrder(proofs \ {p})

AsProof(r) == [secret |-> r.secret, amount |-> r.amount]

\* ---- tasks --------------------------------------------------------------
NoTask ==
    [op |-> "", caller |-> "user", pc |-> "", q |-> 0, amt |-> 0, fee |-> 0,
     reserve |-> 0, expiry |-> 0,
     avail |-> {}, keep |-> {}, send |-> {}, change |-> {}, spent |-> {},
     rk |-> "none", rst |-> "", bal |-> 0, pend |-> 0, cnt |-> 0, attempts |-> 0]

Running == BagToSet(tasks)
Add(bag, t) == bag (+) SetToBag({t})
Del(bag, t) == bag (-) SetToBag({t})
InFlight == BagCardinality(tasks)

\* What a step showed to the outside: the operation, whether it returned
\* ("return"), rejected ("throw") or reached a point of interest, the error
\* (of a return: the one it swallowed), the result, and the task as it ran.
Ev(t, phase, err, res) ==
    [op |-> t.op, phase |-> phase, err |-> err, res |-> res, task |-> t]
\* A step that shows nothing.
Quiet == [op |-> "", phase |-> "", err |-> "none", res |-> 0, task |-> NoTask]

\* No checkMintQuote has returned yet.
NoCheck == [q |-> 0, res |-> 0, quotes |-> {}, n |-> 0]

\* The check that returns now repeats lastCheck: the same quote, the same
\* state reported by the mint, and the Quote Store as that check left it.
Rechecks(t) ==
    /\ lastCheck.q = t.q
    /\ lastCheck.res.state = t.rst
    /\ lastCheck.quotes = db.quotes

\* ---- Init ---------------------------------------------------------------
Init ==
    /\ db = NewDb
    /\ rQuotes = [q \in QuoteIds |-> "none"]
    /\ rSpent = {}
    /\ nextSecret = 1
    /\ poolQuotes = <<>>
    /\ isRunning = FALSE
    /\ checkInterval = FALSE
    /\ now = 0
    /\ cashuWallet = "null"
    /\ tasks = EmptyBag
    /\ calls = 0
    /\ ev = Quiet
    /\ engineMints = [q \in QuoteIds |-> 0]
    /\ lastCheck = NoCheck

\* ---- how a call ends ----------------------------------------------------
\* The call returns res to its caller.
Return(t, rest, res) ==
    /\ tasks' = rest
    /\ ev' = Ev(t, "return", "none", res)

\* The call rejects with err.
Throw(t, rest, err) ==
    /\ tasks' = rest
    /\ ev' = Ev(t, "throw", err, 0)

\* The call returns res after it swallowed err.
ReturnAfter(t, rest, err, res) ==
    /\ tasks' = rest
    /\ ev' = Ev(t, "return", err, res)

\* The call sent a request to the Protocol Client and awaits the reply.
Await(t, rest, pc) ==
    /\ tasks' = Add(rest, [t EXCEPT !.pc = pc])
    /\ ev' = Quiet

\* The same, after a point of interest.
AwaitAt(t, rest, pc, phase, res) ==
    /\ tasks' = Add(rest, [t EXCEPT !.pc = pc])
    /\ ev' = Ev(t, phase, "none", res)

\* The Protocol Client produced the reply of task t's pending request.
Reply(t, u) ==
    /\ tasks' = Add(Del(tasks, t), u)
    /\ ev' = Quiet

\* Secrets the Protocol Client generates for n new proofs.
CanGenerate(n) == nextSecret + n - 1 <= MaxSecret

\* ---- cleanPendingProofs (service.ts 502-547) ----------------------------
CleanResult(cleanedCount, cleanedAmount, totalChecked) ==
    [cleanedCount |-> cleanedCount, cleanedAmount |-> cleanedAmount,
     totalChecked |-> totalChecked, remainingPending |-> totalChecked - cleanedCount]

\* A result whose total leaves the pending balance out.
BalanceResultWithoutPending(balance, pendingBalance, pendingProofsCount) ==
    [balance |-> balance, pendingBalance |-> pendingBalance,
     total |-> balance, pendingProofsCount |-> pendingProofsCount]

BalanceResult(balance, pendingBalance, pendingProofsCount) ==
    [balance |-> balance, pendingBalance |-> pendingBalance,
     total |-> balance + pendingBalance, pendingProofsCount |-> pendingProofsCount]

\* Lines 505-521: read the inflight rows; none: return zeros; else query the mint.
cleanPendingProofsBody(t, rest) ==
    LET pendingProofs == getProofs(db, mintUrl, "inflight")
    IN  /\ IF pendingProofs = {}
              THEN Return(t, rest, CleanResult(0, 0, 0))
              ELSE Await([t EXCEPT !.avail = {AsProof(r) : r \in pendingProofs}],
                         rest, "states_req")
        /\ UNCHANGED <<db, remoteVars, poolVars, now, engineMints, lastCheck>>

\* checkProofsStates at the mint: per proof SPENT or UNSPENT, or the query fails.
CheckProofsStatesReply(t) ==
    /\ t.pc = "states_req"
    /\ \E ok \in BOOLEAN :
          Reply(t, [t EXCEPT !.pc = "states_rsp",
                             !.rk = IF ok THEN "ok" ELSE "err",
                             !.spent = IF ok THEN {p.secret : p \in t.avail} \cap rSpent
                                       ELSE {}])
    /\ UNCHANGED <<db, remoteVars, poolVars, now, cashuWallet, calls, engineMints, lastCheck>>

\* A loop that flips every proof checked, whatever the mint reported.
AllInOrder(t) == RowOrder(t.avail)

\* The proofs reported SPENT, in the order of the loop (lines 523-535).
SpentInOrder(t) ==
    SelectSeq(RowOrder(t.avail), LAMBDA p : p.secret \in t.spent)

\* Lines 523-547 (and getBalance 314-319 when the sweep was started by it):
\* one UPDATE per SPENT proof, each persisted at once; cleanedCount is
\* incremented before the UPDATE that may throw; the catch swallows the error.
CleanPendingProofsFinish(t) ==
    /\ t.pc = "states_rsp"
    /\ LET flips == SpentInOrder(t)
           writes == [i \in 1..Len(flips) |-> WUpd(flips[i].secret, "spent")]
       IN  \E failAt \in 0..Len(flips) :
             LET counted == IF failAt = 0 THEN Len(flips) ELSE failAt
                 cleanedAmount == sumProofs({flips[i] : i \in 1..counted})
                 res == IF t.rk = "ok"
                           THEN CleanResult(counted, cleanedAmount, Cardinality(t.avail))
                           ELSE CleanResult(0, 0, Cardinality(t.avail))
                 swallowed == IF t.rk # "ok" THEN "ProtocolError"
                              ELSE IF failAt # 0 THEN "StorageError" ELSE "none"
             IN  /\ db' = autocommit(db, writes, failAt)
                 /\ IF t.op = "getBalance"
                       THEN ReturnAfter(t, Del(tasks, t), swallowed,
                                        BalanceResult(t.bal, t.pend, t.cnt))
                       ELSE ReturnAfter(t, Del(tasks, t), swallowed, res)
    /\ UNCHANGED <<remoteVars, poolVars, now, cashuWallet, calls, engineMints, lastCheck>>

\* ---- getBalance (service.ts 302-320) ------------------------------------
\* A getBalance that starts the sweep whatever the ledger holds.
getBalanceAlwaysSweeps(t, rest) ==
    LET pendingProofs == getProofs(db, mintUrl, "inflight")
        balance == dbGetBalance(db, mintUrl)
        pendingBalance == sumProofs(pendingProofs)
    IN  /\ AwaitAt([t EXCEPT !.avail = {AsProof(r) : r \in pendingProofs},
                             !.bal = balance, !.pend = pendingBalance,
                             !.cnt = Cardinality(pendingProofs)],
                   rest, "states_req", "read",
                   BalanceResult(balance, pendingBalance,
                                 Cardinality(pendingProofs)))
        /\ UNCHANGED <<db, remoteVars, poolVars, now, engineMints, lastCheck>>

getBalanceBody(t, rest) ==
    LET pendingProofs == getProofs(db, mintUrl, "inflight")
        balance == dbGetBalance(db, mintUrl)
        pendingBalance == sumProofs(pendingProofs)
    IN  /\ IF Cardinality(pendingProofs) > 0
              THEN AwaitAt([t EXCEPT !.avail = {AsProof(r) : r \in pendingProofs},
                                     !.bal = balance, !.pend = pendingBalance,
                                     !.cnt = Cardinality(pendingProofs)],
                           rest, "states_req", "read",
                           BalanceResult(balance, pendingBalance,
                                         Cardinality(pendingProofs)))
              ELSE Return(t, rest, BalanceResult(balance, pendingBalance,
                                                 Cardinality(pendingProofs)))
        /\ UNCHANGED <<db, remoteVars, poolVars, now, engineMints, lastCheck>>

\* ---- receiveEcash (service.ts 478-500) ----------------------------------
\* t.amt is the value of the token; 0 stands for the empty token string.
receiveEcashBody(t, rest) ==
    /\ IF t.amt = 0
          THEN Throw(t, rest, "MissingParameter")
          ELSE Await(t, rest, "receive_req")
    /\ UNCHANGED <<db, remoteVars, poolVars, now, engineMints, lastCheck>>

\* n new proofs worth amount together: one of that amount, or n of 1.
Denominate(amount, n) ==
    IF n = 1 THEN {[secret |-> nextSecret, amount |-> amount]}
    ELSE {[secret |-> nextSecret + i, amount |-> 1] : i \in 0..(n - 1)}

\* receive at the mint: the token is swapped for new proofs, or refused.
ReceiveReply(t) ==
    /\ t.pc = "receive_req"
    /\ \/ \E n \in {1, t.amt} :
            /\ CanGenerate(n)
            /\ nextSecret' = nextSecret + n
            /\ Reply(t, [t EXCEPT !.pc = "receive_rsp", !.rk = "ok",
                                  !.keep = Denominate(t.amt, n)])
       \/ /\ UNCHANGED nextSecret
          /\ \E rk \in {"err", "empty"} :
                Reply(t, [t EXCEPT !.pc = "receive_rsp", !.rk = rk])
    /\ UNCHANGED <<db, rQuotes, rSpent, poolVars, now, cashuWallet, calls, engineMints, lastCheck>>

\* Lines 485-500.
ReceiveEcashFinish(t) ==
    /\ t.pc = "receive_rsp"
    /\ \/ /\ t.rk = "err"
          /\ Throw(t, Del(tasks, t), "ProtocolError")
          /\ UNCHANGED db
       \/ /\ t.rk = "empty"
          /\ Throw(t, Del(tasks, t), "EmptyResult")
          /\ UNCHANGED db
       \/ /\ t.rk = "ok"
          /\ \E failAt \in 0..1 :
                /\ db' = autocommit(db, <<WSave(t.keep, "ready")>>, failAt)
                /\ IF failAt = 0
                      THEN Return(t, Del(tasks, t),
                                  [totalAmount |-> sumProofs(t.keep),
                                   proofCount |-> Cardinality(t.keep)])
                      ELSE Throw(t, Del(tasks, t), "StorageError")
    /\ UNCHANGED <<remoteVars, poolVars, now, cashuWallet, calls, engineMints, lastCheck>>

\* ---- sendEcash (service.ts 421-476) -------------------------------------
\* The writes of the commit (lines 447-458, and 673-675 for payInvoice).
CommitWrites(avail, keep, send, change) ==
    LET rows == RowOrder(avail)
    IN  [i \in 1..Len(rows) |-> WUpd(rows[i].secret, "spent")]
        \o <<WSave(keep, "ready"), WSave(send, "inflight")>>
        \o (IF Cardinality(change) > 0 THEN <<WSave(change, "ready")>> ELSE <<>>)

SendResult(keep, send) ==
    [sentAmount |-> sumProofs(send), keepAmount |-> sumProofs(keep)]

\* Lines 446-476: the commit in one transaction, then the result.
SendCommit(t, rest, keep, send) ==
    \E failAt \in 0..(Cardinality(t.avail) + 2) :
        /\ db' = transaction(db, CommitWrites(t.avail, keep, send, {}), failAt)
        /\ IF failAt = 0
              THEN Return([t EXCEPT !.keep = keep, !.send = send], rest,
                          SendResult(keep, send))
              ELSE Throw(t, rest, "StorageError")

\* The subsets of proofs the Protocol Client may select to cover need:
\* enough, and none of them superfluous.
Selections(proofs, need) ==
    {S \in SUBSET proofs :
        /\ sumProofs(S) >= need
        /\ \A p \in S : sumProofs(S \ {p}) < need}

\* Lines 424-444.  The client's send(amount, proofs) answers without the
\* mint when a selection matches the amount exactly (send = the selected
\* input proofs, keep = the others), and otherwise swaps at the mint.
sendEcashBody(t, rest) ==
    LET availableProofs == {AsProof(r) : r \in getProofs(db, mintUrl, "ready")}
        totalBalance == sumProofs(availableProofs)
        u == [t EXCEPT !.avail = availableProofs]
    IN  IF t.amt <= 0
        THEN /\ Throw(t, rest, "InvalidAmount")
             /\ UNCHANGED <<db, remoteVars, poolVars, now, engineMints, lastCheck>>
        ELSE IF totalBalance < t.amt
        THEN /\ Throw(t, rest, "InsufficientBalance")
             /\ UNCHANGED <<db, remoteVars, poolVars, now, engineMints, lastCheck>>
        ELSE \/ /\ AwaitAt(u, rest, "swap_req", "split", 0)
                /\ UNCHANGED <<db, remoteVars, poolVars, now, engineMints, lastCheck>>
             \/ /\ \E S \in Selections(availableProofs, t.amt) :
                      /\ sumProofs(S) = t.amt
                      /\ SendCommit(u, rest, availableProofs \ S, S)
                /\ UNCHANGED <<remoteVars, poolVars, now, engineMints, lastCheck>>

\* The amount the client is asked to send: sendEcash line 439, payInvoice line 649.
SendAmount(t) == IF t.op = "payInvoice" THEN t.amt + t.reserve ELSE t.amt

\* The swap at the mint: the selected inputs are spent there, new proofs
\* are signed for the amount sent and for the change; fee is what the mint
\* keeps.  The inputs not selected come back in keep unchanged.
SwapReply(t) ==
    /\ t.pc = "swap_req"
    /\ \/ /\ Reply(t, [t EXCEPT !.pc = "swap_rsp", !.rk = "err"])
          /\ UNCHANGED remoteVars
       \/ \E fee \in 0..1 : \E S \in Selections(t.avail, SendAmount(t) + fee) :
            LET rest == sumProofs(S) - SendAmount(t) - fee
                send == {[secret |-> nextSecret, amount |-> SendAmount(t)]}
                new == IF rest > 0 THEN {[secret |-> nextSecret + 1, amount |-> rest]}
                       ELSE {}
            IN  /\ {p.secret : p \in S} \cap rSpent = {}
                /\ CanGenerate(1 + Cardinality(new))
                /\ nextSecret' = nextSecret + 1 + Cardinality(new)
                /\ rSpent' = rSpent \cup {p.secret : p \in S}
                /\ UNCHANGED rQuotes
                /\ Reply(t, [t EXCEPT !.pc = "swap_rsp", !.rk = "ok", !.fee = fee,
                                      !.send = send,
                                      !.keep = (t.avail \ S) \cup new])
    /\ UNCHANGED <<db, poolVars, now, cashuWallet, calls, engineMints, lastCheck>>

SendEcashFinish(t) ==
    /\ t.op = "sendEcash"
    /\ t.pc = "swap_rsp"
    /\ IF t.rk = "ok"
          THEN SendCommit(t, Del(tasks, t), t.keep, t.send)
          ELSE Throw(t, Del(tasks, t), "ProtocolError") /\ UNCHANGED db
    /\ UNCHANGED <<remoteVars, poolVars, now, cashuWallet, calls, engineMints, lastCheck>>

\* ---- payInvoice (service.ts 622-712) -------------------------------------
\* t.amt is the amount of the invoice; 0 stands for the empty invoice string.
payInvoiceBody(t, rest) ==
    /\ IF t.amt = 0
          THEN Throw(t, rest, "MissingParameter")
          ELSE Await(t, rest, "meltquote_req")
    /\ UNCHANGED <<db, remoteVars, poolVars, now, engineMints, lastCheck>>

\* createMeltQuote at the mint: the amount with a fee reserve, or an error.
CreateMeltQuoteReply(t) ==
    /\ t.pc = "meltquote_req"
    /\ \/ \E reserve \in 0..1 :
            Reply(t, [t EXCEPT !.pc = "meltquote_rsp", !.rk = "ok", !.reserve = reserve])
       \/ Reply(t, [t EXCEPT !.pc = "meltquote_rsp", !.rk = "err"])
    /\ UNCHANGED <<db, remoteVars, poolVars, now, cashuWallet, calls, engineMints, lastCheck>>

\* An amount to melt that leaves the fee reserve out.
amountToMeltWithoutReserve(t) == t.amt

\* Line 637.
amountToMelt(t) == t.amt + t.reserve

\* Lines 631-657: the balance check, the client's send (answered without
\* the mint on an exact match, the melt request then follows at once).
PayInvoiceSelect(t) ==
    /\ t.op = "payInvoice"
    /\ t.pc = "meltquote_rsp"
    /\ LET availableProofs == {AsProof(r) : r \in getProofs(db, mintUrl, "ready")}
           totalBalance == sumProofs(availableProofs)
           u == [t EXCEPT !.avail = availableProofs, !.rk = "none"]
       IN  IF t.rk # "ok"
           THEN Throw(t, Del(tasks, t), "ProtocolError")
           ELSE IF totalBalance < amountToMelt(t)
           THEN Throw(t, Del(tasks, t), "InsufficientBalance")
           ELSE \/ Await(u, Del(tasks, t), "swap_req")
                \/ \E S \in Selections(availableProofs, amountToMelt(t)) :
                      /\ sumProofs(S) = amountToMelt(t)
                      /\ Await([u EXCEPT !.keep = availableProofs \ S, !.send = S],
                               Del(tasks, t), "melt_req")
    /\ UNCHANGED <<db, remoteVars, poolVars, now, cashuWallet, calls, engineMints, lastCheck>>

\* Lines 648-657: the swap is done, the melt is requested.
PayInvoiceMelt(t) ==
    /\ t.op = "payInvoice"
    /\ t.pc = "swap_rsp"
    /\ IF t.rk = "ok"
          THEN Await([t EXCEPT !.rk = "none"], Del(tasks, t), "melt_req")
          ELSE Throw(t, Del(tasks, t), "ProtocolError")
    /\ UNCHANGED <<db, remoteVars, poolVars, now, cashuWallet, calls, engineMints, lastCheck>>

\* meltProofs at the mint: the proofs sent are spent there and the invoice
\* is paid; what the reserve exceeded the fee by comes back as change.
MeltProofsReply(t) ==
    /\ t.pc = "melt_req"
    /\ \/ /\ Reply(t, [t EXCEPT !.pc = "melt_rsp", !.rk = "err"])
          /\ UNCHANGED remoteVars
       \/ \E back \in 0..t.reserve :
            LET change == IF back > 0 THEN {[secret |-> nextSecret, amount |-> back]}
                          ELSE {}
            IN  /\ {p.secret : p \in t.send} \cap rSpent = {}
                /\ CanGenerate(Cardinality(change))
                /\ nextSecret' = nextSecret + Cardinality(change)
                /\ rSpent' = rSpent \cup {p.secret : p \in t.send}
                /\ UNCHANGED rQuotes
                /\ Reply(t, [t EXCEPT !.pc = "melt_rsp", !.rk = "ok", !.change = change])
    /\ UNCHANGED <<db, poolVars, now, cashuWallet, calls, engineMints, lastCheck>>

\* Lines 657-698: the commit in one transaction, then the wait of 3 s and
\* the request of checkMeltQuote.
PayInvoiceCommit(t) ==
    /\ t.pc = "melt_rsp"
    /\ IF t.rk # "ok"
          THEN Throw(t, Del(tasks, t), "ProtocolError") /\ UNCHANGED db
          ELSE \E failAt \in 0..(Cardinality(t.avail) + 2 + Cardinality(t.change)) :
                 /\ db' = transaction(db, CommitWrites(t.avail, t.keep, t.send, t.change),
                                      failAt)
                 /\ IF failAt = 0
                       THEN AwaitAt(t, Del(tasks, t), "meltcheck_req", "commit", 0)
                       ELSE Throw(t, Del(tasks, t), "StorageError")
    /\ UNCHANGED <<remoteVars, poolVars, now, cashuWallet, calls, engineMints, lastCheck>>

\* checkMeltQuote at the mint: PAID with or without a preimage, not yet
\* PAID, or the request fails.
CheckMeltQuoteReply(t) ==
    /\ t.pc = "meltcheck_req"
    /\ \E rst \in {"PAID+preimage", "PAID", "PENDING", "err"} :
          Reply(t, [t EXCEPT !.pc = "meltcheck_rsp",
                             !.rk = IF rst = "err" THEN "err" ELSE "ok", !.rst = rst])
    /\ UNCHANGED <<db, remoteVars, poolVars, now, cashuWallet, calls, engineMints, lastCheck>>

\* Lines 682-712.
PayInvoiceFinish(t) ==
    /\ t.pc = "meltcheck_rsp"
    /\ IF t.rk = "err"
          THEN Throw(t, Del(tasks, t), "ProtocolError")
          ELSE Return(t, Del(tasks, t),
                      [amountPaid |-> t.amt, feeReserve |-> t.reserve,
                       totalAmount |-> t.amt + t.reserve,
                       paymentPreimage |-> t.rst = "PAID+preimage",
                       remainingBalance |-> dbGetBalance(db, mintUrl)])
    /\ UNCHANGED <<db, remoteVars, poolVars, now, cashuWallet, calls, engineMints, lastCheck>>

\* ---- QuotePoolManager (service.ts 125-247) ------------------------------
Indices(pool, quoteId) == {i \in 1..Len(pool) : pool[i].quoteId = quoteId}

\* Map.set: a new key is appended, an existing key keeps its position.
MapSet(pool, item) ==
    IF Indices(pool, item.quoteId) = {} THEN Append(pool, item)
    ELSE [i \in 1..Len(pool) |-> IF pool[i].quoteId = item.quoteId THEN item ELSE pool[i]]

MapDelete(pool, quoteId) == SelectSeq(pool, LAMBDA it : it.quoteId # quoteId)

\* A registration that does not start the timer.
addQuoteWithoutStart(quoteId, amount, expiry) ==
    /\ poolQuotes' = MapSet(poolQuotes, [quoteId |-> quoteId, amount |-> amount,
                                         expiry |-> expiry])
    /\ UNCHANGED <<isRunning, checkInterval>>

\* addQuote (lines 140-150) with start (160-167).
addQuote(quoteId, amount, expiry) ==
    /\ poolQuotes' = MapSet(poolQuotes, [quoteId |-> quoteId, amount |-> amount,
                                         expiry |-> expiry])
    /\ isRunning' = TRUE
    /\ checkInterval' = (IF isRunning THEN checkInterval ELSE TRUE)

\* A pool update that leaves the timer as it is.
KeepTimer(pool) ==
    /\ poolQuotes' = pool
    /\ UNCHANGED <<isRunning, checkInterval>>

\* stop (lines 169-177) when the pool left is empty, as removeQuote and
\* cleanupExpiredQuotes call it.
StopIfEmpty(pool) ==
    /\ poolQuotes' = pool
    /\ isRunning' = (IF Len(pool) = 0 THEN FALSE ELSE isRunning)
    /\ checkInterval' = (IF Len(pool) = 0 /\ isRunning THEN FALSE ELSE checkInterval)

\* A removal that leaves the quote tracked.
removeQuoteSkipped(quoteId) == UNCHANGED poolVars

\* removeQuote (lines 152-158).
removeQuote(quoteId) == StopIfEmpty(MapDelete(poolQuotes, quoteId))

\* A cleanup that removes nothing.
KeepExpired(pool) == pool

\* A cleanup that takes the expiry for seconds where the clock gives
\* milliseconds.
UnexpiredInMs(pool) == SelectSeq(pool, LAMBDA it : ~ (now > it.expiry * 1000))

\* A catch that gives the quote up.
catchErrorRemoves(t) ==
    IF t.caller = "engine" THEN removeQuote(t.q) ELSE UNCHANGED poolVars

\* A catch that stops the timer.
catchErrorStops(t) ==
    IF t.caller = "engine"
    THEN /\ isRunning' = FALSE
         /\ checkInterval' = FALSE
         /\ UNCHANGED poolQuotes
    ELSE UNCHANGED poolVars

\* An error of checkMintQuote or mintProofs reaches the user who called,
\* and for the engine the catch of checkAndMintQuote (lines 211-214), which
\* logs it: the tracked set and the timer stay as they are.
catchError(t) == UNCHANGED poolVars

\* cleanupExpiredQuotes (lines 218-235): the pool without the expired quotes.
Unexpired(pool) == SelectSeq(pool, LAMBDA it : ~ (now > it.expiry))

\* A selection without the cap.
AllTracked(pool) == pool

\* Lines 183-186.
QuotesToCheck(pool) == SubSeq(pool, 1, IF Len(pool) < maxConcurrentChecks THEN Len(pool)
                                        ELSE maxConcurrentChecks)

RECURSIVE AddAll(_, _)
AddAll(bag, ts) == IF ts = <<>> THEN bag ELSE AddAll(Add(bag, Head(ts)), Tail(ts))

\* One firing of the interval timer: checkQuotes (lines 179-195).  Every
\* quote selected gets its own checkAndMintQuote, which runs up to the
\* request of checkMintQuote (lines 199, 357-364) before the tick returns.
checkQuotes ==
    /\ LET pool == Unexpired(poolQuotes)
           sel == QuotesToCheck(pool)
           started == [i \in 1..Len(sel) |->
                          [NoTask EXCEPT !.op = "checkMintQuote", !.caller = "engine",
                                         !.pc = "check_req", !.q = sel[i].quoteId,
                                         !.amt = sel[i].amount, !.expiry = sel[i].expiry]]
       IN  /\ StopIfEmpty(pool)
           /\ tasks' = AddAll(tasks, started)
    /\ ev' = Quiet
    /\ UNCHANGED <<db, remoteVars, now, cashuWallet, engineMints, lastCheck>>

\* The checks a firing would start now.
Starting == Len(QuotesToCheck(Unexpired(poolQuotes)))

\* A firing counted in the budget of the run.
Tick ==
    /\ checkInterval
    /\ InFlight + Starting <= MaxTasks
    /\ calls < MaxCalls
    /\ calls' = calls + 1
    /\ checkQuotes

\* A firing of the timer of lines 164-166, as often as the timer is set.
TimerTick ==
    /\ checkInterval
    /\ InFlight + Starting <= MaxTasks
    /\ UNCHANGED calls
    /\ checkQuotes

\* ---- createMintQuote (service.ts 322-355) -------------------------------
createMintQuoteBody(t, rest) ==
    /\ IF t.amt <= 0
          THEN Throw(t, rest, "InvalidAmount")
          ELSE Await(t, rest, "quote_req")
    /\ UNCHANGED <<db, remoteVars, poolVars, now, engineMints, lastCheck>>

\* The quote id the mint assigns next.
FreshQuotes == {q \in QuoteIds : rQuotes[q] = "none" /\ \A p \in QuoteIds : p < q => rQuotes[p] # "none"}

\* createMintQuote at the mint: a new UNPAID quote, or an error.
CreateMintQuoteReply(t) ==
    /\ t.pc = "quote_req"
    /\ \/ \E q \in FreshQuotes :
            /\ rQuotes' = [rQuotes EXCEPT ![q] = "UNPAID"]
            /\ Reply(t, [t EXCEPT !.pc = "quote_rsp", !.rk = "ok", !.q = q,
                                  !.expiry = now + QuoteTTL])
       \/ /\ Reply(t, [t EXCEPT !.pc = "quote_rsp", !.rk = "err"])
          /\ UNCHANGED rQuotes
    /\ UNCHANGED <<db, rSpent, nextSecret, poolVars, now, cashuWallet, calls, engineMints, lastCheck>>

\* Lines 330-355.
CreateMintQuoteFinish(t) ==
    /\ t.pc = "quote_rsp"
    /\ \/ /\ t.rk = "err"
          /\ Throw(t, Del(tasks, t), "ProtocolError")
          /\ UNCHANGED <<db, poolVars>>
       \/ /\ t.rk = "ok"
          /\ \E failAt \in 0..1 :
               IF failAt = 0
               THEN /\ db' = saveMintQuote(db, [mintUrl |-> mintUrl, quote |-> t.q,
                                                state |-> "UNPAID", amount |-> t.amt,
                                                expiry |-> t.expiry])
                    /\ addQuote(t.q, t.amt, t.expiry)
                    /\ Return(t, Del(tasks, t),
                              [quoteId |-> t.q, amount |-> t.amt, expiry |-> t.expiry])
               ELSE /\ Throw(t, Del(tasks, t), "StorageError")
                    /\ UNCHANGED <<db, poolVars>>
    /\ UNCHANGED <<remoteVars, now, cashuWallet, calls, engineMints, lastCheck>>

\* ---- mintProofs (service.ts 393-419) ------------------------------------
\* t.q = 0 stands for the empty quote id.
mintProofsBody(t, rest) ==
    /\ IF t.q = 0 \/ t.amt = 0
          THEN Throw(t, rest, "MissingParameter")
          ELSE Await(t, rest, "mint_req")
    /\ UNCHANGED <<db, remoteVars, poolVars, now, engineMints, lastCheck>>

\* mintProofs at the mint: a PAID quote is issued once, for its amount;
\* the reply may be lost after the mint has issued.
MintProofsReply(t) ==
    /\ t.pc = "mint_req"
    /\ \/ /\ rQuotes[t.q] = "PAID"
          /\ rQuotes' = [rQuotes EXCEPT ![t.q] = "ISSUED"]
          /\ \/ /\ CanGenerate(1)
                /\ nextSecret' = nextSecret + 1
                /\ Reply(t, [t EXCEPT !.pc = "mint_rsp", !.rk = "ok",
                                      !.keep = {[secret |-> nextSecret, amount |-> t.amt]}])
             \/ /\ UNCHANGED nextSecret
                /\ Reply(t, [t EXCEPT !.pc = "mint_rsp", !.rk = "err"])
       \/ /\ UNCHANGED <<rQuotes, nextSecret>>
          /\ \E rk \in {"err", "empty"} :
                Reply(t, [t EXCEPT !.pc = "mint_rsp", !.rk = rk])
    /\ UNCHANGED <<db, rSpent, poolVars, now, cashuWallet, calls, engineMints, lastCheck>>

\* The check of line 402 left out.
NoProofsUnchecked(t) == FALSE

\* Line 402: the client resolved with no proofs.
NoProofs(t) == t.rk = "empty"

\* Lines 402-419, and for the engine lines 204-205 and the catch of 212-215.
MintProofsFinish(t) ==
    /\ t.pc = "mint_rsp"
    /\ \/ /\ t.rk = "err"
          /\ Throw(t, Del(tasks, t), "ProtocolError")
          /\ catchError(t)
          /\ UNCHANGED <<db, engineMints>>
       \/ /\ t.rk # "err"
          /\ NoProofs(t)
          /\ Throw(t, Del(tasks, t), "EmptyResult")
          /\ catchError(t)
          /\ UNCHANGED <<db, engineMints>>
       \/ /\ t.rk # "err"
          /\ ~ NoProofs(t)
          /\ \E failAt \in 0..2 :
                /\ db' = autocommit(db, <<WSave(t.keep, "ready"), WQuote(t.q, "ISSUED")>>,
                                    failAt)
                /\ IF failAt = 0
                      THEN /\ Return(t, Del(tasks, t),
                                     [totalAmount |-> sumProofs(t.keep),
                                      proofCount |-> Cardinality(t.keep)])
                           /\ IF t.caller = "engine"
                                 THEN /\ removeQuote(t.q)
                                      /\ engineMints' = [engineMints EXCEPT ![t.q] = @ + 1]
                                 ELSE UNCHANGED <<poolVars, engineMints>>
                      ELSE /\ Throw(t, Del(tasks, t), "StorageError")
                           /\ catchError(t)
                           /\ UNCHANGED engineMints
    /\ UNCHANGED <<remoteVars, now, cashuWallet, calls, lastCheck>>

\* ---- checkMintQuote (service.ts 357-391) --------------------------------
checkMintQuoteBody(t, rest) ==
    /\ IF t.q = 0
          THEN Throw(t, rest, "MissingParameter")
          ELSE Await(t, rest, "check_req")
    /\ UNCHANGED <<db, remoteVars, poolVars, now, engineMints, lastCheck>>

\* checkMintQuote at the mint: the state of the quote now, or an error.
CheckMintQuoteReply(t) ==
    /\ t.pc = "check_req"
    /\ \/ /\ rQuotes[t.q] # "none"
          /\ Reply(t, [t EXCEPT !.pc = "check_rsp", !.rk = "ok", !.rst = rQuotes[t.q]])
       \/ Reply(t, [t EXCEPT !.pc = "check_rsp", !.rk = "err"])
    /\ UNCHANGED <<db, remoteVars, poolVars, now, cashuWallet, calls, engineMints, lastCheck>>

StatusResult(quoteId, state) ==
    [quoteId |-> quoteId, state |-> state, isPaid |-> state = "PAID",
     isIssued |-> state = "ISSUED",
     canMint |-> (state = "PAID") /\ ~ (state = "ISSUED")]

\* Lines 366-391; for the engine then checkAndMintQuote, lines 201-215:
\* a paid quote goes on to mintProofs (its request is sent in this
\* segment), an issued one is removed from the pool.
CheckMintQuoteFinish(t) ==
    /\ t.pc = "check_rsp"
    /\ \/ /\ t.rk = "err"
          /\ Throw(t, Del(tasks, t), "ProtocolError")
          /\ catchError(t)
          /\ UNCHANGED <<db, lastCheck>>
       \/ /\ t.rk = "ok"
          /\ \E failAt \in 0..1 :
               LET status == StatusResult(t.q, t.rst)
               IN  IF failAt # 0
                   THEN /\ Throw(t, Del(tasks, t), "StorageError")
                        /\ catchError(t)
                        /\ UNCHANGED <<db, lastCheck>>
                   ELSE /\ db' = updateMintQuoteState(db, mintUrl, t.q, t.rst)
                        /\ IF t.caller = "user"
                           THEN /\ Return(t, Del(tasks, t), status)
                                /\ lastCheck' = [q |-> t.q, res |-> status,
                                                 quotes |-> db'.quotes,
                                                 n |-> IF Rechecks(t) THEN 2 ELSE 1]
                                /\ UNCHANGED poolVars
                           ELSE IF status.isPaid /\ ~ status.isIssued
                           THEN /\ Await([t EXCEPT !.op = "mintProofs", !.rk = "none",
                                                   !.rst = ""],
                                         Del(tasks, t), "mint_req")
                                /\ UNCHANGED <<poolVars, lastCheck>>
                           ELSE IF status.isIssued
                           THEN /\ Return(t, Del(tasks, t), status)
                                /\ removeQuote(t.q)
                                /\ UNCHANGED lastCheck
                           ELSE /\ Return(t, Del(tasks, t), status)
                                /\ UNCHANGED <<poolVars, lastCheck>>
    /\ UNCHANGED <<remoteVars, now, cashuWallet, calls, engineMints>>

\* mintEcash, lines 552-557: the amount is validated, then the quote is
\* requested.
mintEcashBody(t, rest) ==
    /\ IF t.amt <= 0
          THEN Throw(t, rest, "InvalidAmount")
          ELSE Await(t, rest, "quote_req")
    /\ UNCHANGED <<db, remoteVars, poolVars, now, engineMints, lastCheck>>

\* ---- ensureWalletInitialized (service.ts 290-296) and the calls ----------
Body(t, rest) ==
    CASE t.op = "getBalance" -> getBalanceBody(t, rest)
      [] t.op = "cleanPendingProofs" -> cleanPendingProofsBody(t, rest)
      [] t.op = "receiveEcash" -> receiveEcashBody(t, rest)
      [] t.op = "sendEcash" -> sendEcashBody(t, rest)
      [] t.op = "payInvoice" -> payInvoiceBody(t, rest)
      [] t.op = "createMintQuote" -> createMintQuoteBody(t, rest)
      [] t.op = "checkMintQuote" -> checkMintQuoteBody(t, rest)
      [] t.op = "mintProofs" -> mintProofsBody(t, rest)
      [] t.op = "mintEcash" -> mintEcashBody(t, rest)

\* A call of a public operation: the first caller creates the wallet object
\* and awaits loadMint; with the object present the body runs at once.
Call(t) ==
    /\ InFlight < MaxTasks
    /\ calls < MaxCalls
    /\ calls' = calls + 1
    /\ IF cashuWallet = "null"
          THEN /\ cashuWallet' = "created"
               /\ Await(t, tasks, "loadMint")
               /\ UNCHANGED <<db, remoteVars, poolVars, now, engineMints, lastCheck>>
          ELSE /\ UNCHANGED cashuWallet
               /\ Body(t, tasks)

LoadMintOk(t) ==
    /\ t.pc = "loadMint"
    /\ cashuWallet' = "loaded"
    /\ Body(t, Del(tasks, t))
    /\ UNCHANGED calls

LoadMintFail(t) ==
    /\ t.pc = "loadMint"
    /\ Throw(t, Del(tasks, t), "InitError")
    /\ UNCHANGED <<db, remoteVars, poolVars, now, cashuWallet, calls, engineMints, lastCheck>>

GetBalance == Call([NoTask EXCEPT !.op = "getBalance"])
CleanPendingProofs == Call([NoTask EXCEPT !.op = "cleanPendingProofs"])
ReceiveEcash == \E a \in 0..MaxAmount : Call([NoTask EXCEPT !.op = "receiveEcash", !.amt = a])
SendEcash == \E a \in -1..MaxAmount : Call([NoTask EXCEPT !.op = "sendEcash", !.amt = a])
PayInvoice == \E a \in 0..MaxAmount : Call([NoTask EXCEPT !.op = "payInvoice", !.amt = a])
CreateMintQuote == \E a \in 0..MaxAmount : Call([NoTask EXCEPT !.op = "createMintQuote", !.amt = a])
CheckMintQuote == \E q \in 0..MaxQuote : Call([NoTask EXCEPT !.op = "checkMintQuote", !.q = q])
MintProofs ==
    \E q \in 0..MaxQuote : \E a \in 0..MaxAmount :
        Call([NoTask EXCEPT !.op = "mintProofs", !.q = q, !.amt = a])

\* ---- the world outside ---------------------------------------------------
\* The holder of a token redeems one of its proofs at the mint.
Redeem ==
    /\ \E r \in getProofs(db, mintUrl, "inflight") :
          /\ r.secret \notin rSpent
          /\ rSpent' = rSpent \cup {r.secret}
    /\ ev' = Quiet
    /\ UNCHANGED <<db, rQuotes, nextSecret, poolVars, now, cashuWallet, tasks, calls, engineMints, lastCheck>>

\* The invoice of a quote is paid.  The invoice leaves the wallet in the
\* result of createMintQuote only, which returns after the quote is saved.
PayQuote ==
    /\ \E q \in QuoteIds :
          /\ rQuotes[q] = "UNPAID"
          /\ \E r \in db.quotes : r.mintUrl = mintUrl /\ r.quote = q
          /\ rQuotes' = [rQuotes EXCEPT ![q] = "PAID"]
    /\ ev' = Quiet
    /\ UNCHANGED <<db, rSpent, nextSecret, poolVars, now, cashuWallet, tasks, calls, engineMints, lastCheck>>

\* A second passes.
AdvanceTime ==
    /\ now < MaxTime
    /\ now' = now + 1
    /\ ev' = Quiet
    /\ UNCHANGED <<db, remoteVars, poolVars, cashuWallet, tasks, calls, engineMints, lastCheck>>

\* destroy (lines 243-246): stop, then the pool is cleared.
destroy ==
    /\ isRunning' = FALSE
    /\ checkInterval' = (IF isRunning THEN FALSE ELSE checkInterval)
    /\ poolQuotes' = <<>>

\* close (lines 732-739) as the shutdown handlers call it: the engine is
\* destroyed, the database handle is closed and the process exits, so the
\* continuations still pending never run and no call follows.
Close ==
    /\ calls < MaxCalls
    /\ calls' = MaxCalls
    /\ destroy
    /\ tasks' = EmptyBag
    /\ ev' = Quiet
    /\ UNCHANGED <<db, remoteVars, now, cashuWallet, engineMints, lastCheck>>

\* ---- the specification ---------------------------------------------------
Next ==
    \/ GetBalance
    \/ CleanPendingProofs
    \/ ReceiveEcash
    \/ SendEcash
    \/ \E t \in Running : LoadMintOk(t)
    \/ \E t \in Running : LoadMintFail(t)
    \/ \E t \in Running : CheckProofsStatesReply(t)
    \/ \E t \in Running : CleanPendingProofsFinish(t)
    \/ \E t \in Running : ReceiveReply(t)
    \/ \E t \in Running : ReceiveEcashFinish(t)
    \/ \E t \in Running : SwapReply(t)
    \/ \E t \in Running : SendEcashFinish(t)
    \/ PayInvoice
    \/ \E t \in Running : CreateMeltQuoteReply(t)
    \/ \E t \in Running : PayInvoiceSelect(t)
    \/ \E t \in Running : PayInvoiceMelt(t)
    \/ \E t \in Running : MeltProofsReply(t)
    \/ \E t \in Running : PayInvoiceCommit(t)
    \/ \E t \in Running : CheckMeltQuoteReply(t)
    \/ \E t \in Running : PayInvoiceFinish(t)
    \/ CreateMintQuote
    \/ CheckMintQuote
    \/ MintProofs
    \/ Tick
    \/ \E t \in Running : CreateMintQuoteReply(t)
    \/ \E t \in Running : CreateMintQuoteFinish(t)
    \/ \E t \in Running : CheckMintQuoteReply(t)
    \/ \E t \in Running : CheckMintQuoteFinish(t)
    \/ \E t \in Running : MintProofsReply(t)
    \/ \E t \in Running : MintProofsFinish(t)
    \/ Redeem
    \/ PayQuote
    \/ AdvanceTime
    \/ Close

Spec == Init /\ [][Next]_vars

\* ---- the store over the runs of the process ------------------------------
\* The storage file outlives the process: it is opened by the constructor
\* of each run, written while the run lasts, closed, and can be damaged
\* between two runs.
OpenStore ==
    /\ db.conn # "open"
    /\ calls < MaxCalls
    /\ calls' = calls + 1
    /\ \E f1 \in Failures : \E removed \in BOOLEAN : \E f2 \in Failures :
          LET r == openDb(db, f1, removed, f2)
          IN  /\ db' = r.d
              /\ ev' = [op |-> "open", phase |-> IF r.ok THEN "return" ELSE "throw",
                        err |-> IF r.ok THEN "none" ELSE "StorageError",
                        res |-> [caught |-> r.caught, removed |-> r.caught /\ removed,
                                 ran1 |-> r.ran1, ran2 |-> r.ran2],
                        task |-> NoTask]
    /\ UNCHANGED <<remoteVars, poolVars, now, cashuWallet, tasks, engineMints, lastCheck>>

\* WalletDb.close (db.ts 321-323) at the end of a run.
CloseStore ==
    /\ db.conn = "open"
    /\ db' = [db EXCEPT !.conn = "closed"]
    /\ ev' = Quiet
    /\ UNCHANGED <<remoteVars, poolVars, now, cashuWallet, tasks, calls, engineMints, lastCheck>>

\* What a run writes: a proof saved as ready, a quote saved as UNPAID.
StoreWrite ==
    /\ db.conn = "open"
    /\ \/ \E n \in 1..2 :
            db' = saveProofs(db, {[secret |-> n, amount |-> 1]}, mintUrl, "ready")
       \/ db' = saveMintQuote(db, [mintUrl |-> mintUrl, quote |-> 1, state |-> "UNPAID",
                                   amount |-> 1, expiry |-> QuoteTTL])
    /\ ev' = Quiet
    /\ UNCHANGED <<remoteVars, poolVars, now, cashuWallet, tasks, calls, engineMints, lastCheck>>

\* Between two runs the file is damaged or its permissions change.
Damage ==
    /\ db.conn # "open"
    /\ db.file \in {"ok", "corrupt", "unreadable"}
    /\ \E st \in {"corrupt", "unreadable"} :
          /\ st # db.file
          /\ db' = [db EXCEPT !.file = st]
    /\ ev' = Quiet
    /\ UNCHANGED <<remoteVars, poolVars, now, cashuWallet, tasks, calls, engineMints, lastCheck>>

\* Before the first run there is no file.
StoreInit ==
    /\ db = [EmptyFile("closed") EXCEPT !.file = "absent"]
    /\ rQuotes = [q \in QuoteIds |-> "none"]
    /\ rSpent = {}
    /\ nextSecret = 1
    /\ poolQuotes = <<>>
    /\ isRunning = FALSE
    /\ checkInterval = FALSE
    /\ now = 0
    /\ cashuWallet = "null"
    /\ tasks = EmptyBag
    /\ calls = 0
    /\ ev = Quiet
    /\ engineMints = [q \in QuoteIds |-> 0]
    /\ lastCheck = NoCheck

StoreNext ==
    \/ OpenStore
    \/ CloseStore
    \/ StoreWrite
    \/ Damage

StoreSpec == StoreInit /\ [][StoreNext]_vars

\* ---- the Monitoring Engine left to itself ---------------------------------
\* The engine with the quotes that createMintQuote registers and nobody
\* checks or mints by hand: the timer fires as long as it is set, the
\* database does not fail, and the mint's answer to a mintProofs that issued
\* is not lost.  A check or a mint may still fail any number of times.
NoStorageError == ev'.err # "StorageError"

MintAnswered(t) ==
    rQuotes' # rQuotes
        => \E u \in BagToSet(tasks') : u.pc = "mint_rsp" /\ u.rk = "ok" /\ u.q = t.q

\* The Protocol Client's call for quote q resolves with the mint's answer.
CheckSucceeds(q) ==
    \E t \in Running :
        /\ t.q = q
        /\ CheckMintQuoteReply(t)
        /\ [t EXCEPT !.pc = "check_rsp", !.rk = "ok", !.rst = rQuotes[q]] \in BagToSet(tasks')

MintSucceeds(q) ==
    \E t \in Running :
        /\ t.q = q
        /\ MintProofsReply(t)
        /\ rQuotes' # rQuotes
        /\ MintAnswered(t)

\* The step of EngineNext that continues task t when the promise it awaits
\* is settled.
Continue(t) ==
    \/ LoadMintOk(t)
    \/ LoadMintFail(t)
    \/ CreateMintQuoteReply(t)
    \/ CreateMintQuoteFinish(t) /\ NoStorageError
    \/ CheckMintQuoteReply(t)
    \/ CheckMintQuoteFinish(t) /\ NoStorageError
    \/ MintProofsReply(t) /\ MintAnswered(t)
    \/ MintProofsFinish(t) /\ NoStorageError

EngineNext ==
    \/ CreateMintQuote
    \/ TimerTick
    \/ \E t \in Running : LoadMintOk(t)
    \/ \E t \in Running : LoadMintFail(t)
    \/ \E t \in Running : CreateMintQuoteReply(t)
    \/ \E t \in Running : CreateMintQuoteFinish(t) /\ NoStorageError
    \/ \E t \in Running : CheckMintQuoteReply(t)
    \/ \E t \in Running : CheckMintQuoteFinish(t) /\ NoStorageError
    \/ \E t \in Running : MintProofsReply(t) /\ MintAnswered(t)
    \/ \E t \in Running : MintProofsFinish(t) /\ NoStorageError
    \/ PayQuote
    \/ AdvanceTime

\* Where a task can wait: its position and the kind of reply it holds.
Waits ==
    {<<"loadMint", "none">>, <<"quote_req", "none">>, <<"quote_rsp", "ok">>,
     <<"quote_rsp", "err">>, <<"check_req", "none">>, <<"check_rsp", "ok">>,
     <<"check_rsp", "err">>, <<"mint_req", "none">>, <<"mint_rsp", "ok">>,
     <<"mint_rsp", "err">>, <<"mint_rsp", "empty">>}

\* The timer fires while it is set and the event loop runs every
\* continuation whose promise is settled; the check and the mint of a quote
\* succeed in the end.
EngineFairness ==
    /\ WF_vars(TimerTick)
    /\ \A q \in 0..MaxQuote : \A w \in Waits :
          WF_vars(\E t \in Running : t.q = q /\ t.pc = w[1] /\ t.rk = w[2] /\ Continue(t))
    /\ \A q \in QuoteIds : SF_vars(CheckSucceeds(q))
    /\ \A q \in QuoteIds : SF_vars(MintSucceeds(q))

EngineSpec == Init /\ [][EngineNext]_vars /\ EngineFairness

\* ---- the engine with more quotes than it checks at once -------------------
\* Quote ids are strings the mint chooses, so the order of registration is
\* not the order of the ids: the ids registered are a run of the cycle
\* 1, 2, .., MaxTracked that starts anywhere.
PoolIds == 1..MaxTracked

Registered(first, n) == [i \in 1..n |-> ((first + i - 2) % MaxTracked) + 1]

\* n quotes of amount 1 created at time 1, or the first of them at time 0
\* (early = 1), each with its row in the Quote Store and unpaid at the mint; the
\* wallet is loaded and the timer runs (lines 140-150, 160-167, 339-347).
PoolInit ==
    \E first \in PoolIds : \E n \in 1..MaxTracked : \E early \in 0..1 :
        LET ids == Registered(first, n)
            expiryOf(i) == IF i <= early THEN QuoteTTL ELSE QuoteTTL + 1
        IN  /\ poolQuotes = [i \in 1..n |-> [quoteId |-> ids[i], amount |-> 1,
                                               expiry |-> expiryOf(i)]]
            /\ db = [NewDb EXCEPT !.quotes =
                        {[mintUrl |-> mintUrl, quote |-> ids[i], state |-> "UNPAID",
                          amount |-> 1, expiry |-> expiryOf(i)] : i \in 1..n}]
            /\ rQuotes = [q \in PoolIds |->
                             IF \E i \in 1..n : ids[i] = q THEN "UNPAID" ELSE "none"]
            /\ rSpent = {}
            /\ nextSecret = 1
            /\ isRunning = TRUE
            /\ checkInterval = TRUE
            /\ now = 1
            /\ cashuWallet = "loaded"
            /\ tasks = EmptyBag
            /\ calls = 0
            /\ ev = Quiet
            /\ engineMints = [q \in PoolIds |-> 0]
            /\ lastCheck = NoCheck

\* A firing of the timer after the checks of the firing before it have
\* settled.
PoolTick ==
    /\ checkInterval
    /\ InFlight = 0
    /\ UNCHANGED calls
    /\ checkQuotes

PoolNext ==
    \/ PoolTick
    \/ \E t \in Running : CheckMintQuoteReply(t)
    \/ \E t \in Running : CheckMintQuoteFinish(t)
    \/ AdvanceTime

PoolSpec == PoolInit /\ [][PoolNext]_vars

\* ---- mintEcash (service.ts 549-618) --------------------------------------
\* Lines 559-581: the quote is saved as UNPAID and the loop is entered; the
\* call sleeps five seconds before each poll (line 582).
MintEcashSaveQuote(t) ==
    /\ t.op = "mintEcash"
    /\ t.pc = "quote_rsp"
    /\ \/ /\ t.rk = "err"
          /\ Throw(t, Del(tasks, t), "ProtocolError")
          /\ UNCHANGED db
       \/ /\ t.rk = "ok"
          /\ \E failAt \in 0..1 :
               IF failAt = 0
               THEN /\ db' = saveMintQuote(db, [mintUrl |-> mintUrl, quote |-> t.q,
                                                state |-> "UNPAID", amount |-> t.amt,
                                                expiry |-> t.expiry])
                    /\ Await([t EXCEPT !.rk = "none"], Del(tasks, t), "poll_wait")
               ELSE /\ Throw(t, Del(tasks, t), "StorageError")
                    /\ UNCHANGED db
    /\ UNCHANGED <<remoteVars, poolVars, now, cashuWallet, calls, engineMints, lastCheck>>

\* Lines 582-584: the sleep is over and the poll is sent.
MintEcashPoll(t) ==
    /\ t.op = "mintEcash"
    /\ t.pc = "poll_wait"
    /\ Await(t, Del(tasks, t), "check_req")
    /\ UNCHANGED <<db, remoteVars, poolVars, now, cashuWallet, calls, engineMints, lastCheck>>

\* A loop that goes round once more.
LoopGoesOnOnceMore(attempts) == attempts <= maxAttempts

\* Line 581, with paid false.
LoopGoesOn(attempts) == attempts < maxAttempts

\* Lines 586-598: PAID leaves the loop and requests the issuance (line
\* 601), ISSUED throws, anything else counts an attempt; after the last
\* attempt the call throws the timeout.
MintEcashPolled(t) ==
    /\ t.op = "mintEcash"
    /\ t.pc = "check_rsp"
    /\ IF t.rk = "err"
          THEN Throw(t, Del(tasks, t), "ProtocolError")
       ELSE IF t.rst = "PAID"
          THEN Await([t EXCEPT !.rk = "none", !.rst = ""], Del(tasks, t), "mint_req")
       ELSE IF t.rst = "ISSUED"
          THEN Throw(t, Del(tasks, t), "AlreadyIssued")
       ELSE IF LoopGoesOn(t.attempts + 1)
          THEN Await([t EXCEPT !.rk = "none", !.rst = "", !.attempts = @ + 1],
                     Del(tasks, t), "poll_wait")
          ELSE Throw(t, Del(tasks, t), "Timeout")
    /\ UNCHANGED <<db, remoteVars, poolVars, now, cashuWallet, calls, engineMints, lastCheck>>

\* Lines 603-618: no proofs throws; else the proofs are saved as ready and
\* the quote row is set to ISSUED, one write after the other.
MintEcashFinish(t) ==
    /\ t.op = "mintEcash"
    /\ t.pc = "mint_rsp"
    /\ \/ /\ t.rk = "err"
          /\ Throw(t, Del(tasks, t), "ProtocolError")
          /\ UNCHANGED db
       \/ /\ t.rk = "empty"
          /\ Throw(t, Del(tasks, t), "EmptyResult")
          /\ UNCHANGED db
       \/ /\ t.rk = "ok"
          /\ \E failAt \in 0..2 :
                /\ db' = autocommit(db, <<WSave(t.keep, "ready"), WQuote(t.q, "ISSUED")>>,
                                    failAt)
                /\ IF failAt = 0
                      THEN Return(t, Del(tasks, t),
                                  [totalAmount |-> sumProofs(t.keep),
                                   proofCount |-> Cardinality(t.keep),
                                   quoteId |-> t.q])
                      ELSE Throw(t, Del(tasks, t), "StorageError")
    /\ UNCHANGED <<remoteVars, poolVars, now, cashuWallet, calls, engineMints, lastCheck>>

\* The mintEcash calls in flight.
MintEcashCalls(b) == {t \in BagToSet(b) : t.op = "mintEcash"}

\* The user calls mintEcash, one call at a time.
MintEcash ==
    /\ MintEcashCalls(tasks) = {}
    /\ \E a \in {0, MaxAmount} : Call([NoTask EXCEPT !.op = "mintEcash", !.amt = a])

\* The user mints the quote of the mintEcash call in flight by hand.
MintByHand ==
    \E t \in MintEcashCalls(tasks) :
        /\ t.q # 0
        /\ Call([NoTask EXCEPT !.op = "mintProofs", !.q = t.q, !.amt = t.amt])

IsMintProofs(t) == t.op = "mintProofs"

\* mintEcash calls, payments, and mintProofs calls of the user beside them.
MintEcashNext ==
    \/ MintEcash
    \/ MintByHand
    \/ \E t \in Running : LoadMintOk(t)
    \/ \E t \in Running : LoadMintFail(t)
    \/ \E t \in Running : CreateMintQuoteReply(t)
    \/ \E t \in Running : MintEcashSaveQuote(t)
    \/ \E t \in Running : MintEcashPoll(t)
    \/ \E t \in Running : CheckMintQuoteReply(t)
    \/ \E t \in Running : MintEcashPolled(t)
    \/ \E t \in Running : MintProofsReply(t)
    \/ \E t \in Running : MintEcashFinish(t)
    \/ \E t \in Running : IsMintProofs(t) /\ MintProofsFinish(t)
    \/ PayQuote

\* The step that continues task t.
MintEcashContinue(t) ==
    \/ LoadMintOk(t)
    \/ LoadMintFail(t)
    \/ CreateMintQuoteReply(t)
    \/ MintEcashSaveQuote(t)
    \/ MintEcashPoll(t)
    \/ CheckMintQuoteReply(t)
    \/ MintEcashPolled(t)
    \/ MintProofsReply(t)
    \/ MintEcashFinish(t)
    \/ IsMintProofs(t) /\ MintProofsFinish(t)

MintEcashWaits ==
    {"loadMint", "quote_req", "quote_rsp", "poll_wait", "check_req", "check_rsp",
     "mint_req", "mint_rsp"}

\* Every request is answered, every sleep ends, and the event loop runs
\* every continuation whose promise is settled.
MintEcashFairness ==
    \A w \in MintEcashWaits : \A op \in {"mintEcash", "mintProofs"} :
        WF_vars(\E t \in Running : t.pc = w /\ t.op = op /\ MintEcashContinue(t))

MintEcashSpec == Init /\ [][MintEcashNext]_vars /\ MintEcashFairness

\* ---- one quote in trouble, another in order ------------------------------
\* Two quotes registered at time 0 are tracked.  The calls for the first may
\* fail as often as they like, with a protocol or a storage error, and one
\* request for each quote may stay without an answer for ever (pc "hung":
\* the promise of the Protocol Client never settles, so its checkAndMintQuote
\* and the Promise.allSettled of its tick stay pending, lines 192-194); the
\* calls for the other quotes succeed in the end.
Troubled(q) == q = 1

SiblingInit ==
    /\ poolQuotes = [i \in 1..2 |-> [quoteId |-> i, amount |-> 1, expiry |-> QuoteTTL]]
    /\ db = [NewDb EXCEPT !.quotes =
                {[mintUrl |-> mintUrl, quote |-> i, state |-> "UNPAID",
                  amount |-> 1, expiry |-> QuoteTTL] : i \in 1..2}]
    /\ rQuotes = [q \in QuoteIds |-> IF q \in 1..2 THEN "UNPAID" ELSE "none"]
    /\ rSpent = {}
    /\ nextSecret = 1
    /\ isRunning = TRUE
    /\ checkInterval = TRUE
    /\ now = 0
    /\ cashuWallet = "loaded"
    /\ tasks = EmptyBag
    /\ calls = 0
    /\ ev = Quiet
    /\ engineMints = [q \in QuoteIds |-> 0]
    /\ lastCheck = NoCheck

\* The calls whose request will never be answered.
Hung == {t \in BagToSet(tasks) : t.pc = "hung"}

\* The calls that still go on.
Live == BagCardinality(tasks) - Cardinality(Hung)

\* The request of t is never answered: t waits for ever.
NeverCompletes(t) ==
    /\ t.pc \in {"check_req", "mint_req"}
    /\ \A h \in Hung : h.q # t.q
    /\ tasks' = Add(Del(tasks, t), [t EXCEPT !.pc = "hung"])
    /\ ev' = Quiet
    /\ UNCHANGED <<db, remoteVars, poolVars, now, cashuWallet, calls, engineMints, lastCheck>>

\* A firing of the timer (lines 164-166): the callback does not await the
\* checks of the firings before it.
SiblingTick ==
    /\ checkInterval
    /\ Live + Starting <= MaxTasks
    /\ UNCHANGED calls
    /\ checkQuotes

SiblingNext ==
    \/ SiblingTick
    \/ \E t \in Running : NeverCompletes(t)
    \/ \E t \in Running : CheckMintQuoteReply(t)
    \/ \E t \in Running : CheckMintQuoteFinish(t) /\ (Troubled(t.q) \/ NoStorageError)
    \/ \E t \in Running : MintProofsReply(t) /\ (Troubled(t.q) \/ MintAnswered(t))
    \/ \E t \in Running : MintProofsFinish(t) /\ (Troubled(t.q) \/ NoStorageError)
    \/ PayQuote
    \/ AdvanceTime

\* The timer fires while it is set, the event loop runs every continuation
\* whose promise is settled, and the check and the mint of a quote that is
\* not in trouble succeed in the end.
SiblingFairness ==
    /\ WF_vars(SiblingTick)
    /\ \A q \in QuoteIds : \A w \in Waits :
          WF_vars(\E t \in Running : t.q = q /\ t.pc = w[1] /\ t.rk = w[2] /\ Continue(t))
    /\ \A q \in QuoteIds : ~ Troubled(q) => SF_vars(CheckSucceeds(q))
    /\ \A q \in QuoteIds : ~ Troubled(q) => SF_vars(MintSucceeds(q))

SiblingSpec == SiblingInit /\ [][SiblingNext]_vars /\ SiblingFairness

\* ---- the engine with no new quote -----------------------------------------
\* Quotes registered before, with an expiry behind or ahead, and no
\* createMintQuote any more.  The checks and the mints may fail at the
\* mint, succeed or stay without an answer; invoices are paid or not; the
\* database does not fail.
IdleInit ==
    /\ \E n \in 1..MaxQuote : \E e \in [1..n -> 0..QuoteTTL] :
          /\ poolQuotes = [i \in 1..n |-> [quoteId |-> i, amount |-> 1, expiry |-> e[i]]]
          /\ db = [NewDb EXCEPT !.quotes =
                      {[mintUrl |-> mintUrl, quote |-> i, state |-> "UNPAID",
                        amount |-> 1, expiry |-> e[i]] : i \in 1..n}]
          /\ rQuotes = [q \in QuoteIds |-> IF q \in 1..n THEN "UNPAID" ELSE "none"]
    /\ rSpent = {}
    /\ nextSecret = 1
    /\ isRunning = TRUE
    /\ checkInterval = TRUE
    /\ now = 0
    /\ cashuWallet = "loaded"
    /\ tasks = EmptyBag
    /\ calls = 0
    /\ ev = Quiet
    /\ engineMints = [q \in QuoteIds |-> 0]
    /\ lastCheck = NoCheck

IdleNext ==
    \/ SiblingTick
    \/ \E t \in Running : NeverCompletes(t)
    \/ \E t \in Running : CheckMintQuoteReply(t)
    \/ \E t \in Running : CheckMintQuoteFinish(t) /\ NoStorageError
    \/ \E t \in Running : MintProofsReply(t)
    \/ \E t \in Running : MintProofsFinish(t) /\ NoStorageError
    \/ PayQuote
    \/ AdvanceTime

\* The timer fires while it is set (setInterval, lines 164-166) and time
\* passes.
IdleFairness ==
    /\ WF_vars(SiblingTick)
    /\ WF_vars(AdvanceTime)

IdleSpec == IdleInit /\ [][IdleNext]_vars /\ IdleFairness

\* ---- a store shared with another mint -------------------------------------
\* The table cashu_proofs has PRIMARY KEY (mintUrl, secret) (db.ts 14-25):
\* the file the service opens may hold the proofs of a wallet of another
\* mint, under any secret.
otherMintUrl == "other"

OtherMintRows ==
    {[mintUrl |-> otherMintUrl, secret |-> s, amount |-> 1, state |-> st] :
        s \in Secrets, st \in {"inflight", "ready", "spent"}}

OtherMintInit ==
    /\ \E r \in OtherMintRows : db = [NewDb EXCEPT !.proofs = {r}]
    /\ rQuotes = [q \in QuoteIds |-> "none"]
    /\ rSpent = {}
    /\ nextSecret = 1
    /\ poolQuotes = <<>>
    /\ isRunning = FALSE
    /\ checkInterval = FALSE
    /\ now = 0
    /\ cashuWallet = "null"
    /\ tasks = EmptyBag
    /\ calls = 0
    /\ ev = Quiet
    /\ engineMints = [q \in QuoteIds |-> 0]
    /\ lastCheck = NoCheck

\* The operations that change the state of a proof, and receiveEcash, which
\* brings the proofs they work on.
OtherMintNext ==
    \/ CleanPendingProofs
    \/ ReceiveEcash
    \/ SendEcash
    \/ PayInvoice
    \/ \E t \in Running : LoadMintOk(t)
    \/ \E t \in Running : LoadMintFail(t)
    \/ \E t \in Running : CheckProofsStatesReply(t)
    \/ \E t \in Running : CleanPendingProofsFinish(t)
    \/ \E t \in Running : ReceiveReply(t)
    \/ \E t \in Running : ReceiveEcashFinish(t)
    \/ \E t \in Running : SwapReply(t)
    \/ \E t \in Running : SendEcashFinish(t)
    \/ \E t \in Running : CreateMeltQuoteReply(t)
    \/ \E t \in Running : PayInvoiceSelect(t)
    \/ \E t \in Running : PayInvoiceMelt(t)
    \/ \E t \in Running : MeltProofsReply(t)
    \/ \E t \in Running : PayInvoiceCommit(t)
    \/ \E t \in Running : CheckMeltQuoteReply(t)
    \/ \E t \in Running : PayInvoiceFinish(t)
    \/ Redeem

OtherMintSpec == OtherMintInit /\ [][OtherMintNext]_vars

\* ---- what the properties speak of ------------------------------------------
\* The row of a secret under the configured mint.
RowsOf(d, secret) == {r \in d.proofs : r.mintUrl = mintUrl /\ r.secret = secret}

\* The persisted state of a proof, "none" when the ledger holds no such row.
StateOf(d, secret) ==
    IF RowsOf(d, secret) = {} THEN "none" ELSE (CHOOSE r \in RowsOf(d, secret) : TRUE).state

AmountOf(d, secret) ==
    IF RowsOf(d, secret) = {} THEN 0 ELSE (CHOOSE r \in RowsOf(d, secret) : TRUE).amount

\* The sum of the amounts of the proofs in a state, secret by secret.
RECURSIVE StateSumUpTo(_, _, _)
StateSumUpTo(d, state, n) ==
    IF n = 0 THEN 0
    ELSE StateSumUpTo(d, state, n - 1)
         + (IF StateOf(d, n) = state THEN AmountOf(d, n) ELSE 0)

StateSum(d, state) == StateSumUpTo(d, state, MaxSecret)

RECURSIVE AmountSumUpTo(_, _)
AmountSumUpTo(proofs, n) ==
    IF n = 0 THEN 0
    ELSE AmountSumUpTo(proofs, n - 1)
         + (IF \E p \in proofs : p.secret = n
               THEN (CHOOSE p \in proofs : p.secret = n).amount ELSE 0)

AmountSum(proofs) == AmountSumUpTo(proofs, MaxSecret)

SecretsOf(proofs) == {p.secret : p \in proofs}

QuoteStateOf(d, q) ==
    LET rows == {r \in d.quotes : r.mintUrl = mintUrl /\ r.quote = q}
    IN  IF rows = {} THEN "none" ELSE (CHOOSE r \in rows : TRUE).state

QuoteRank(state) ==
    CASE state = "none" -> 0
      [] state = "UNPAID" -> 1
      [] state = "PAID" -> 2
      [] state = "ISSUED" -> 3

\* The step ran the first segment of a call: from the call itself, or
\* from the end of the initialization it waited for.
FirstSegment(e) == e.task.pc \in {"", "loadMint"}

\* ---- C1 ------------------------------------------------------------------
\* C1: for every quote id, whatever the overlap of the ticks, at most one
\* mintProofs call started by the Monitoring Engine returns successfully,
\* and a quote the engine has minted is no longer in the pool.
C1_EngineMintsOnce ==
    \A q \in QuoteIds :
        /\ engineMints[q] <= 1
        /\ engineMints[q] = 1 => Indices(poolQuotes, q) = {}

\* Two overlapping ticks both asked the mint to issue quote q; one call has
\* returned, the other is still in flight.
C1_Witness ==
    \E q \in QuoteIds :
        /\ engineMints[q] = 1
        /\ \E t \in Running : t.caller = "engine" /\ t.op = "mintProofs" /\ t.q = q

\* ---- C2 ------------------------------------------------------------------
ForwardStep(a, b) ==
    \/ a = b
    \/ <<a, b>> \in {<<"none", "ready">>, <<"none", "inflight">>,
                    <<"ready", "inflight">>, <<"inflight", "spent">>,
                    <<"ready", "spent">>}

\* C2: the persisted state of every proof changes only along
\* ready -> inflight, inflight -> spent or ready -> spent; a proof seen
\* inflight or spent is never ready again, a spent proof never inflight.
C2_ProofStatesOnlyForward ==
    [][\A s \in Secrets : ForwardStep(StateOf(db, s), StateOf(db', s))]_vars

\* ---- C3 ------------------------------------------------------------------
\* Every write of the commit of task t is visible in ledger d.
AllWritten(d, t) ==
    /\ \A p \in t.keep \cup t.change :
          StateOf(d, p.secret) = "ready" /\ AmountOf(d, p.secret) = p.amount
    /\ \A p \in t.send :
          StateOf(d, p.secret) = "inflight" /\ AmountOf(d, p.secret) = p.amount
    /\ \A p \in t.avail :
          p.secret \notin SecretsOf(t.keep \cup t.send \cup t.change)
              => StateOf(d, p.secret) = "spent"

\* C3: the commit of sendEcash and of payInvoice is all-or-nothing: a call
\* that rejects leaves the ledger as it was before the step, a commit that
\* succeeds shows every input proof spent, keep ready, send inflight and
\* the change ready, and touches nothing else.
C3_CommitAllOrNothing ==
    [][(ev'.op \in {"sendEcash", "payInvoice"} /\ ev'.phase \in {"return", "commit", "throw"})
         => IF ev'.phase = "throw" THEN db' = db
            ELSE IF ev'.op = "payInvoice" /\ ev'.phase = "return" THEN db' = db
            ELSE /\ AllWritten(db', ev'.task)
                 /\ \A s \in Secrets :
                       s \notin SecretsOf(ev'.task.avail \cup ev'.task.keep
                                          \cup ev'.task.send \cup ev'.task.change)
                           => RowsOf(db', s) = RowsOf(db, s)
                 /\ db'.quotes = db.quotes]_vars

\* A write of the commit failed after the mint had done the split or the melt.
C3_Witness ==
    /\ ev.op \in {"sendEcash", "payInvoice"}
    /\ ev.phase = "throw"
    /\ ev.err = "StorageError"
    /\ ev.task.avail # {}
    /\ ev.task.send # {}

\* ---- C4 ------------------------------------------------------------------
\* C4: sendEcash called when the ready proofs sum to less than the amount
\* always rejects with InsufficientBalance, asks the Protocol Client for no
\* split and leaves every proof and quote of the ledger unchanged.
C4_InsufficientBalanceAlways ==
    [][(/\ ev'.op = "sendEcash"
        /\ FirstSegment(ev')
        /\ StateSum(db, "ready") < ev'.task.amt)
         => /\ ev'.phase = "throw"
            /\ ev'.err = "InsufficientBalance"
            /\ db' = db
            /\ UNCHANGED remoteVars]_vars

\* ---- C5 ------------------------------------------------------------------
\* C5: after a successful sendEcash the amounts persisted as keep and send
\* equal the sum of the proofs read minus the fee, and the ready+inflight
\* sum of the ledger after the commit is the sum before it minus the fee.
C5_SendConservesValue ==
    [][(ev'.op = "sendEcash" /\ ev'.phase = "return")
         => /\ AmountSum(ev'.task.keep) + AmountSum(ev'.task.send)
                 = AmountSum(ev'.task.avail) - ev'.task.fee
            /\ StateSum(db', "ready") + StateSum(db', "inflight")
                 = StateSum(db, "ready") + StateSum(db, "inflight") - ev'.task.fee]_vars

\* ---- C6 ------------------------------------------------------------------
\* C6: the stored state of every mint quote only moves
\* UNPAID -> PAID -> ISSUED, under any interleaving of createMintQuote,
\* checkMintQuote, mintProofs and ticks.
C6_QuoteStateMonotonic ==
    [][\A q \in QuoteIds :
          QuoteRank(QuoteStateOf(db', q)) >= QuoteRank(QuoteStateOf(db, q))]_vars

\* ---- C7 ------------------------------------------------------------------
\* C7: every getBalance result has total = balance + pendingBalance, where
\* balance is the sum of the ready proofs and pendingBalance the sum of the
\* inflight proofs the query read; the result returned after the sweep is
\* the one read; for a ledger without proofs all four numbers are 0.
C7_TotalIsBalancePlusPending ==
    [][(ev'.op = "getBalance" /\ ev'.phase \in {"read", "return"})
         => /\ ev'.res.total = ev'.res.balance + ev'.res.pendingBalance
            /\ FirstSegment(ev')
                 => /\ ev'.res.balance = StateSum(db, "ready")
                    /\ ev'.res.pendingBalance = StateSum(db, "inflight")
                    /\ ev'.res.pendingProofsCount
                         = Cardinality({s \in Secrets : StateOf(db, s) = "inflight"})
                    /\ db.proofs = {}
                         => ev'.res = [balance |-> 0, pendingBalance |-> 0,
                                       total |-> 0, pendingProofsCount |-> 0]
            /\ ~ FirstSegment(ev')
                 => \E t \in Running :
                       /\ t.op = "getBalance"
                       /\ t.pc = "states_rsp"
                       /\ ev'.res.balance = t.bal
                       /\ ev'.res.pendingBalance = t.pend
                       /\ ev'.res.pendingProofsCount = t.cnt]_vars

\* A balance query returned with proofs ready and proofs inflight.
C7_Witness ==
    /\ ev.op = "getBalance"
    /\ ev.phase = "return"
    /\ ev.res.balance > 0
    /\ ev.res.pendingBalance > 0

\* ---- C8 ------------------------------------------------------------------
\* C8: the pending balance a balance query returns is the inflight sum the
\* ledger holds when the query returns, the sweep the query ran itself
\* included.
C8_PendingIsLedgerInflight ==
    (ev.op = "getBalance" /\ ev.phase = "return")
        => ev.res.pendingBalance = StateSum(db, "inflight")

\* ---- C9 ------------------------------------------------------------------
\* C9: cleanPendingProofs never rejects, whatever fails while it runs.
C9_CleanNeverThrows ==
    ~ (ev.op = "cleanPendingProofs" /\ ev.phase = "throw")

C11_CheckMintQuoteIdempotent ==
    [][(/\ ev'.op = "checkMintQuote"
        /\ ev'.phase = "return"
        /\ ev'.task.caller = "user"
        /\ Rechecks(ev'.task))
         => /\ ev'.res = lastCheck.res
            /\ db'.quotes = lastCheck.quotes
            /\ db'.proofs = db.proofs]_vars

\* A second check of a stored quote returned with nothing changed in between.
C11_Witness ==
    /\ ev.op = "checkMintQuote"
    /\ ev.phase = "return"
    /\ lastCheck.n = 2
    /\ QuoteStateOf(db, lastCheck.q) = lastCheck.res.state

\* ---- C12 -----------------------------------------------------------------
\* C12: createMintQuote with an amount of 0 or less rejects with
\* InvalidAmount; no quote is requested from the mint, none is persisted and
\* none is registered with the Monitoring Engine.
C12_InvalidAmountRejected ==
    [][(/\ ev'.op = "createMintQuote"
        /\ FirstSegment(ev')
        /\ ev'.task.amt <= 0)
         => /\ ev'.phase = "throw"
            /\ ev'.err = "InvalidAmount"
            /\ db' = db
            /\ UNCHANGED <<remoteVars, poolVars>>]_vars

\* ---- C13 -----------------------------------------------------------------
\* The row of a quote under the configured mint.
QuoteRowsOf(d, q) == {r \in d.quotes : r.mintUrl = mintUrl /\ r.quote = q}

\* C13: when createMintQuote returns, the Quote Store holds the returned
\* quote id as UNPAID with the requested amount, the id is tracked by the
\* Monitoring Engine and its timer runs; when the mint rejects the request,
\* neither the store nor the tracked set changes.
C13_QuoteStoredAndTracked ==
    [][(ev'.op = "createMintQuote" /\ ev'.phase \in {"return", "throw"})
         => IF ev'.phase = "return"
            THEN /\ ev'.res.quoteId = ev'.task.q
                 /\ ev'.res.amount = ev'.task.amt
                 /\ \E r \in QuoteRowsOf(db', ev'.res.quoteId) :
                       r.state = "UNPAID" /\ r.amount = ev'.task.amt
                 /\ \A q \in QuoteIds \ {ev'.res.quoteId} :
                       QuoteRowsOf(db', q) = QuoteRowsOf(db, q)
                 /\ db'.proofs = db.proofs
                 /\ \E i \in Indices(poolQuotes', ev'.res.quoteId) :
                       poolQuotes'[i].amount = ev'.task.amt
                 /\ isRunning'
                 /\ checkInterval'
            ELSE /\ db' = db
                 /\ UNCHANGED poolVars]_vars

\* A quote came back from the mint and createMintQuote returned it.
C13_Witness ==
    /\ ev.op = "createMintQuote"
    /\ ev.phase = "return"
    /\ QuoteStateOf(db, ev.res.quoteId) = "UNPAID"
    /\ Indices(poolQuotes, ev.res.quoteId) # {}

\* ---- C14 -----------------------------------------------------------------
\* C14: when mintProofs returns, every proof the mint issued is in the
\* Proof Store as ready, the ready balance has grown by their sum, and the
\* stored state of the quote is ISSUED.
C14_MintedProofsReadyQuoteIssued ==
    [][(ev'.op = "mintProofs" /\ ev'.phase = "return")
         => /\ ev'.task.keep # {}
            /\ \A p \in ev'.task.keep :
                  StateOf(db', p.secret) = "ready" /\ AmountOf(db', p.secret) = p.amount
            /\ StateSum(db', "ready") = StateSum(db, "ready") + AmountSum(ev'.task.keep)
            /\ ev'.res.totalAmount = AmountSum(ev'.task.keep)
            /\ QuoteStateOf(db', ev'.task.q) = "ISSUED"]_vars

\* A caller's mintProofs returned for a quote that was paid.
C14_Witness ==
    /\ ev.op = "mintProofs"
    /\ ev.phase = "return"
    /\ ev.task.caller = "user"
    /\ ev.task.keep # {}
    /\ QuoteStateOf(db, ev.task.q) = "ISSUED"

\* ---- C15 -----------------------------------------------------------------
\* C15: mintProofs rejects with MissingParameter when the quote id is empty
\* or the amount is zero, and with EmptyResult when the mint returns no
\* proofs; in both cases the ledger is unchanged and the operation ends
\* without asking the mint again.
C15_MintProofsRejections ==
    [][/\ (/\ ev'.op = "mintProofs"
           /\ FirstSegment(ev')
           /\ (ev'.task.q = 0 \/ ev'.task.amt = 0))
            => /\ ev'.phase = "throw"
               /\ ev'.err = "MissingParameter"
               /\ db' = db
               /\ UNCHANGED remoteVars
       /\ (/\ ev'.op = "mintProofs"
           /\ ev'.task.pc = "mint_rsp"
           /\ ev'.task.rk = "empty")
            => /\ ev'.phase = "throw"
               /\ ev'.err = "EmptyResult"
               /\ db' = db
               /\ UNCHANGED remoteVars
               /\ \A u \in BagToSet(tasks') : u \in Running]_vars

\* ---- C16 -----------------------------------------------------------------
\* C16: when payInvoice resumes with a melt quote whose amount plus fee
\* reserve exceeds the sum of the ready proofs, it rejects with
\* InsufficientBalance in that step: no split and no melt is requested and
\* the ledger is unchanged.  (A task also leaves when the service is
\* closed; that step is not a resumption.)
C16_PayInvoiceInsufficientBalance ==
    [][\A t \in Running :
          (/\ t.op = "payInvoice"
           /\ t.pc = "meltquote_rsp"
           /\ t.rk = "ok"
           /\ StateSum(db, "ready") < t.amt + t.reserve
           /\ CopiesIn(t, tasks') < CopiesIn(t, tasks)
           /\ ~ Close)
             => /\ ev'.phase = "throw"
                /\ ev'.err = "InsufficientBalance"
                /\ ev'.task = t
                /\ tasks' = Del(tasks, t)
                /\ db' = db
                /\ UNCHANGED remoteVars]_vars

\* The ready proofs cover the invoice but not the fee reserve on top of it.
C16_Witness ==
    /\ ev.op = "payInvoice"
    /\ ev.phase = "throw"
    /\ ev.err = "InsufficientBalance"
    /\ ev.task.reserve > 0
    /\ StateSum(db, "ready") >= ev.task.amt
    /\ StateSum(db, "ready") < ev.task.amt + ev.task.reserve

\* ---- C17 -----------------------------------------------------------------
\* C17: a payInvoice that has melted and committed its ledger write ends
\* with a successful return whatever the delayed re-check of the melt quote
\* gave (PAID with or without a preimage, not PAID, or the re-check itself
\* failing), the preimage being reported only when the re-check gave one.
C17_PayInvoiceReturnsAfterCommit ==
    [][(/\ ev'.op = "payInvoice"
        /\ ev'.task.pc = "meltcheck_rsp"
        /\ ev'.phase \in {"return", "throw"})
          => /\ ev'.phase = "return"
             /\ ev'.res.paymentPreimage = (ev'.task.rst = "PAID+preimage")
             /\ db' = db]_vars

\* ---- C18 -----------------------------------------------------------------
\* C18: receiveEcash rejects with MissingParameter for an empty token and
\* with EmptyResult when the Protocol Client returns no proofs, the ledger
\* unchanged in both cases; when it returns, exactly the proofs the client
\* returned are new rows in state ready, and no other proof and no quote
\* changes.
C18_ReceiveEcashContract ==
    [][/\ (/\ ev'.op = "receiveEcash"
           /\ FirstSegment(ev')
           /\ ev'.task.amt = 0)
            => /\ ev'.phase = "throw"
               /\ ev'.err = "MissingParameter"
               /\ db' = db
       /\ (/\ ev'.op = "receiveEcash"
           /\ ev'.task.pc = "receive_rsp"
           /\ ev'.task.rk = "empty")
            => /\ ev'.phase = "throw"
               /\ ev'.err = "EmptyResult"
               /\ db' = db
       /\ (/\ ev'.op = "receiveEcash"
           /\ ev'.phase = "return")
            => /\ ev'.task.keep # {}
               /\ \A p \in ev'.task.keep : RowsOf(db, p.secret) = {}
               /\ db'.proofs = db.proofs \cup
                     {[mintUrl |-> mintUrl, secret |-> p.secret,
                       amount |-> p.amount, state |-> "ready"] : p \in ev'.task.keep}
               /\ db'.quotes = db.quotes
               /\ ev'.res.totalAmount = AmountSum(ev'.task.keep)]_vars

\* ---- C20 -----------------------------------------------------------------
\* C20: after every operation of the Monitoring Engine (a registration, a
\* removal after a mint or an observed issuance, the purge of expired
\* quotes in a tick, destroy) the interval timer is active exactly when the
\* tracked set is not empty, and the running flag agrees with the timer.
C20_TimerActiveIffTracked ==
    /\ checkInterval <=> Len(poolQuotes) > 0
    /\ isRunning <=> checkInterval

\* The engine minted the only tracked quote and removed it, which stopped
\* the timer its registration had started.
C20_Witness ==
    /\ \E q \in QuoteIds : engineMints[q] = 1
    /\ Len(poolQuotes) = 0
    /\ ~ checkInterval
    /\ ev.op = "mintProofs"
    /\ ev.task.caller = "engine"

\* ---- C19 -----------------------------------------------------------------
\* Quote q is tracked by the engine, paid at the mint and not yet expired.
PaidInTime(q) ==
    /\ rQuotes[q] = "PAID"
    /\ \E i \in Indices(poolQuotes, q) : now < poolQuotes[i].expiry

\* C19: every quote tracked by the Monitoring Engine that is paid before
\* its expiry is eventually minted by the engine, given that the timer
\* keeps firing and that the check and the mint of the quote succeed in
\* the end.
C19_PaidQuoteEventuallyMinted ==
    \A q \in QuoteIds : PaidInTime(q) ~> (engineMints[q] >= 1)

\* ---- C21 -----------------------------------------------------------------
\* C21: with the default configuration a quote created by createMintQuote
\* and paid afterwards is minted only by a mintProofs call of the user: no
\* mintProofs started by the Monitoring Engine returns, and no step of an
\* engine task changes the ready balance.
C21_MintOnlyOnUserCall ==
    [][/\ (ev'.op = "mintProofs" /\ ev'.phase = "return")
            => ev'.task.caller = "user"
       /\ ev'.task.caller = "engine"
            => StateSum(db', "ready") = StateSum(db, "ready")]_vars

\* ---- C22 -----------------------------------------------------------------
\* The input of the call is one its operation rejects.
InvalidInput(t) ==
    \/ t.op \in {"createMintQuote", "sendEcash"} /\ t.amt <= 0
    \/ t.op = "checkMintQuote" /\ t.q = 0
    \/ t.op = "mintProofs" /\ (t.q = 0 \/ t.amt <= 0)
    \/ t.op \in {"receiveEcash", "payInvoice"} /\ t.amt = 0

\* C22: a public operation called with an invalid input never has a
\* request to the mint pending, the first call of the process included:
\* it has failed before anything was sent.
C22_ValidationBeforeRemote ==
    \A t \in Running : ~ InvalidInput(t)

\* ---- C23 -----------------------------------------------------------------
\* The elements of a sequence are distinct.
NoRepeat(seq) == \A i, j \in 1..Len(seq) : seq[i] = seq[j] => i = j

Range(seq) == {seq[i] : i \in 1..Len(seq)}

\* C23: over any number of opens of the store an upgrade is in effect
\* exactly when its marker is recorded, before and after every step, also
\* when the open throws; and an open commits an upgrade only on a file
\* that does not hold its marker, and not twice.
C23_UpgradeOnceWithMarker ==
    [][/\ db.schema = db.migrations
       /\ db'.schema = db'.migrations
       /\ ev'.op = "open"
            => /\ NoRepeat(ev'.res.ran1)
               /\ NoRepeat(ev'.res.ran2)
               /\ Range(ev'.res.ran1) \cap db.migrations = {}
               /\ Range(ev'.res.ran2) \cap
                     (IF ev'.res.removed THEN {} ELSE db.migrations \cup Range(ev'.res.ran1)) = {}
               /\ Range(ev'.res.ran1) \cup Range(ev'.res.ran2) \subseteq db'.migrations
               /\ ev'.phase = "return" => db'.migrations = MigrationIds]_vars

\* A later open of a file that holds the marker and rows of an earlier run:
\* nothing is applied again and the rows are still there.
C23_Witness ==
    /\ ev.op = "open"
    /\ ev.phase = "return"
    /\ ev.res.ran1 = <<>>
    /\ ~ ev.res.caught
    /\ db.migrations = MigrationIds
    /\ db.proofs # {}

\* ---- C24 -----------------------------------------------------------------
\* C24: opening a store whose file is unreadable or corrupted does not
\* abort: the file is discarded and the store is open on a new file with
\* its schema and with no proofs and no quotes.
C24_CorruptFileReinitialized ==
    [][(ev'.op = "open" /\ db.file \in {"corrupt", "unreadable"})
          => /\ ev'.phase = "return"
             /\ db'.conn = "open"
             /\ db'.file = "ok"
             /\ db'.schema = MigrationIds
             /\ db'.proofs = {}
             /\ db'.quotes = {}]_vars

\* ---- C25 -----------------------------------------------------------------
\* C25: the step in which mintProofs resumes with the mint's reply commits
\* as one unit: either the ledger is as before, or the new proofs are
\* persisted as ready and the quote is marked ISSUED; never the proofs
\* without the mark or the mark without the proofs.
C25_MintCommitAtomic ==
    [][(/\ ev'.op = "mintProofs"
        /\ ev'.task.pc = "mint_rsp"
        /\ ev'.phase \in {"return", "throw"})
          => \/ db' = db
             \/ /\ \A p \in ev'.task.keep : StateOf(db', p.secret) = "ready"
                /\ ev'.task.keep # {}
                /\ QuoteStateOf(db', ev'.task.q) = "ISSUED"]_vars

\* ---- C26 -----------------------------------------------------------------
\* C26: the inflight-to-spent flips of one sweep are one atomic unit: when
\* a ledger write fails in the middle of the sweep none of its flips is
\* persisted, and when none fails every proof reported SPENT is flipped.
C26_SweepAtomic ==
    [][(ev'.phase = "return" /\ ev'.task.pc = "states_rsp" /\ ev'.task.rk = "ok")
         => LET reported == SecretsOf(ev'.task.avail) \cap ev'.task.spent
            IN  IF ev'.err = "StorageError"
                THEN db' = db
                ELSE \A s \in reported :
                        StateOf(db, s) # "none" => StateOf(db', s) = "spent"]_vars

\* C27: the step in which getBalance reads the ledger starts the
\* cleanPendingProofs sweep (the call goes on to the proof-status query over
\* the inflight proofs it read) exactly when the ledger holds at least one
\* inflight proof in that step; with no inflight proof the call returns in that
\* step, no new proof-status query is pending at the Protocol Client, and the
\* ledger and the mint are as before.
C27_SweepIffInflight ==
    [][(ev'.op = "getBalance" /\ FirstSegment(ev') /\ ev'.phase \in {"read", "return"})
         => LET pendingProofs == getProofs(db, mintUrl, "inflight")
                u == [ev'.task EXCEPT !.pc = "states_req",
                                      !.avail = {AsProof(r) : r \in pendingProofs},
                                      !.bal = ev'.res.balance,
                                      !.pend = ev'.res.pendingBalance,
                                      !.cnt = ev'.res.pendingProofsCount]
            IN  /\ (ev'.phase = "read") <=> (pendingProofs # {})
                /\ ev'.phase = "read" => CopiesIn(u, tasks') > CopiesIn(u, tasks)
                /\ pendingProofs = {}
                      => /\ \A t \in BagToSet(tasks') :
                               t.pc = "states_req" => CopiesIn(t, tasks') <= CopiesIn(t, tasks)
                         /\ db' = db
                         /\ UNCHANGED remoteVars]_vars

\* A getBalance started its sweep over an inflight proof, and the ledger also
\* holds a proof that is not inflight.
C27_Witness ==
    /\ ev.op = "getBalance"
    /\ ev.phase = "read"
    /\ \E t \in BagToSet(tasks) : t.op = "getBalance" /\ t.pc = "states_req" /\ t.avail # {}
    /\ \E r \in db.proofs : r.state # "inflight"

\* The quote ids tracked in a pool.
TrackedIds(pool) == {pool[i].quoteId : i \in 1..Len(pool)}

\* The checks of the Monitoring Engine that a step starts.
ChecksStarted ==
    {t \in BagToSet(tasks') : /\ t.caller = "engine"
                              /\ t.pc = "check_req"
                              /\ CopiesIn(t, tasks') > CopiesIn(t, tasks)}

\* C28: a tick removes from the tracked set every quote whose expiry lies in
\* the past and starts no check for it, and it touches neither the Quote
\* Store nor the mint, so the row of the quote stays as it is and nothing is
\* minted in that step.  In every step a check is started only for a quote
\* that is tracked after the step, and a quote enters the tracked set only
\* through the createMintQuote that registers it, so no later tick checks a
\* quote that was removed.
C28_ExpiredQuotePurged ==
    [][/\ (checkInterval /\ checkQuotes)
            => LET expired == {poolQuotes[i].quoteId : i \in
                                 {j \in 1..Len(poolQuotes) : now > poolQuotes[j].expiry}}
               IN  /\ expired \cap TrackedIds(poolQuotes') = {}
                   /\ TrackedIds(poolQuotes') = TrackedIds(poolQuotes) \ expired
                   /\ \A t \in ChecksStarted : t.q \notin expired
                   /\ db' = db
                   /\ UNCHANGED remoteVars
       /\ \A t \in ChecksStarted : t.q \in TrackedIds(poolQuotes') /\ ~ (now > t.expiry)
       /\ \A q \in TrackedIds(poolQuotes') \ TrackedIds(poolQuotes) :
             ev'.op = "createMintQuote" /\ ev'.phase = "return" /\ ev'.task.q = q]_vars

\* A tick has removed a quote past its expiry: its row is in the Quote Store,
\* the quote is unpaid at the mint and no longer tracked, no call works on it,
\* and the wallet has not been closed.
C28_Witness ==
    /\ calls < MaxCalls
    /\ \E r \in db.quotes :
          /\ now > r.expiry
          /\ r.state = "UNPAID"
          /\ rQuotes[r.quote] = "UNPAID"
          /\ r.quote \notin TrackedIds(poolQuotes)
          /\ \A t \in BagToSet(tasks) : t.q # r.quote

\* The quote ids of the first entries of a pool, at most n of them.
FirstIds(pool, n) == {pool[i].quoteId : i \in 1..(IF Len(pool) < n THEN Len(pool) ELSE n)}

\* C29: the checks a tick starts are for at most maxConcurrentChecks quotes,
\* they are the checks of the first quotes, in registration order, of the set
\* tracked after the purge, and the tick starts exactly one check for each of
\* these quote ids.
C29_TickChecksFirstUpToCap ==
    [][(checkInterval /\ checkQuotes)
         => /\ Cardinality({t.q : t \in ChecksStarted}) <= maxConcurrentChecks
            /\ {t.q : t \in ChecksStarted} = FirstIds(poolQuotes', maxConcurrentChecks)
            /\ \A t \in ChecksStarted : CopiesIn(t, tasks') = CopiesIn(t, tasks) + 1
            /\ \A t, u \in ChecksStarted : t.q = u.q => t = u
            /\ BagCardinality(tasks') = BagCardinality(tasks) + Cardinality(ChecksStarted)]_vars

\* More quotes are tracked than the cap: a tick has started a check for each
\* of the first maxConcurrentChecks and none for a later one, whose id is
\* smaller than the id of a quote that is checked.
C29_Witness ==
    /\ Len(poolQuotes) > maxConcurrentChecks
    /\ \A i \in 1..maxConcurrentChecks :
          \E t \in BagToSet(tasks) :
              t.q = poolQuotes[i].quoteId /\ t.pc = "check_req" /\ CopiesIn(t, tasks) = 1
    /\ \E i \in (maxConcurrentChecks + 1)..Len(poolQuotes) :
          /\ \A t \in BagToSet(tasks) : t.q # poolQuotes[i].quoteId
          /\ \E j \in 1..maxConcurrentChecks : poolQuotes[i].quoteId < poolQuotes[j].quoteId

\* The entries of a pool.
Entries(pool) == {pool[i] : i \in 1..Len(pool)}

\* C30: a check or a mint of the engine that fails changes neither the
\* tracked set nor the timer, and neither does a check that finds the quote
\* unpaid; while a quote is tracked the timer is set, and every tick keeps
\* each tracked quote that is not past its expiry and starts a check for it
\* when it is among the first maxConcurrentChecks, whatever happened to it in
\* earlier ticks; short of the shutdown, a quote leaves the tracked set only
\* when the engine minted it, when a check of the engine found it issued, or
\* when a tick found it past its expiry.
C30_FailedQuoteStaysTracked ==
    [][/\ (ev'.task.caller = "engine" /\ ev'.phase = "throw") => UNCHANGED poolVars
       /\ (ev'.task.caller = "engine" /\ ev'.phase = "return"
             /\ ev'.op = "checkMintQuote" /\ ~ ev'.res.isIssued) => UNCHANGED poolVars
       /\ Len(poolQuotes') > 0 => checkInterval'
       /\ (checkInterval /\ checkQuotes)
             => /\ \A it \in Entries(poolQuotes) :
                      ~ (now > it.expiry) => it \in Entries(poolQuotes')
                /\ \A q \in FirstIds(poolQuotes', maxConcurrentChecks) :
                      \E t \in ChecksStarted : t.q = q
       /\ ~ Close
             => \A it \in Entries(poolQuotes) \ Entries(poolQuotes') :
                   \/ (checkInterval /\ checkQuotes) /\ now > it.expiry
                   \/ /\ ev'.task.caller = "engine"
                      /\ ev'.task.q = it.quoteId
                      /\ ev'.phase = "return"
                      /\ \/ ev'.op = "mintProofs"
                         \/ ev'.op = "checkMintQuote" /\ ev'.res.isIssued]_vars

\* The mint of the engine failed for a paid quote, or its check failed, and
\* the quote is tracked, not past its expiry, with the timer set.
C30_Witness ==
    /\ ev.task.caller = "engine"
    /\ ev.phase = "throw"
    /\ ev.op = "mintProofs"
    /\ ev.task.q \in TrackedIds(poolQuotes)
    /\ \E it \in Entries(poolQuotes) : it.quoteId = ev.task.q /\ ~ (now > it.expiry)
    /\ checkInterval

\* C30, the retry: under EngineSpec a quote whose check or mint failed and
\* that is still tracked gets a new check started by a later tick, unless it
\* leaves the tracked set before.
C30_RetriedOnLaterTick ==
    \A q \in QuoteIds :
        (ev.task.caller = "engine" /\ ev.phase = "throw" /\ ev.task.q = q
           /\ q \in TrackedIds(poolQuotes))
        ~> (\/ q \notin TrackedIds(poolQuotes)
            \/ \E t \in BagToSet(tasks) : t.caller = "engine" /\ t.q = q /\ t.pc = "check_req")

\* The mintProofs requests of the Monitoring Engine that a step sends.
MintsStarted ==
    {t \in BagToSet(tasks') : /\ t.caller = "engine"
                              /\ t.pc = "mint_req"
                              /\ CopiesIn(t, tasks') > CopiesIn(t, tasks)}

\* C31: when a check of the engine returns a status that is issued, the quote
\* is no longer tracked after that step, the step sends no request to the
\* mint and starts no task, and the proofs of the ledger are as before; and
\* every mintProofs request of the engine comes from a check of that quote
\* that the mint answered with PAID.
C31_IssuedRemovedWithoutMint ==
    [][/\ (ev'.task.caller = "engine" /\ ev'.op = "checkMintQuote"
             /\ ev'.phase = "return" /\ ev'.res.isIssued)
            => /\ ev'.task.q \notin TrackedIds(poolQuotes')
               /\ tasks' = Del(tasks, ev'.task)
               /\ MintsStarted = {}
               /\ db'.proofs = db.proofs
               /\ engineMints' = engineMints
               /\ UNCHANGED remoteVars
       /\ \A u \in MintsStarted :
             \E t \in BagToSet(tasks) :
                 /\ t.caller = "engine" /\ t.q = u.q
                 /\ t.pc = "check_rsp" /\ t.rk = "ok" /\ t.rst = "PAID"
                 /\ CopiesIn(t, tasks') < CopiesIn(t, tasks)]_vars

\* A check of the engine found a quote issued that the engine never minted:
\* the quote was tracked, is issued at the mint, and is not tracked now.
C31_Witness ==
    /\ ev.task.caller = "engine"
    /\ ev.op = "checkMintQuote"
    /\ ev.phase = "return"
    /\ ev.res.isIssued
    /\ rQuotes[ev.task.q] = "ISSUED"
    /\ engineMints[ev.task.q] = 0
    /\ ev.task.q \notin TrackedIds(poolQuotes)

\* C32: while a quote is tracked the timer is set, whatever failed; a quote
\* not in trouble that is paid before its expiry is minted by the engine,
\* unless a tick finds it past its expiry first, although the calls for the
\* other quote of its tick fail or never complete; and a quote whose request
\* hangs gets a new check from a later tick as long as it is tracked.
C32_SiblingsAndTimerUnaffected ==
    /\ [](Len(poolQuotes) > 0 => checkInterval)
    /\ \A q \in QuoteIds :
          ~ Troubled(q)
            => (PaidInTime(q) ~> (engineMints[q] >= 1 \/ q \notin TrackedIds(poolQuotes)))
    /\ \A q \in QuoteIds :
          (q \in TrackedIds(poolQuotes) /\ \E h \in Hung : h.q = q)
            ~> (\/ q \notin TrackedIds(poolQuotes)
                \/ \E t \in BagToSet(tasks) : t.q = q /\ t.pc = "check_req")

\* The engine minted the quote in order while a request for the quote in
\* trouble, paid as well, hangs and that quote is still tracked.
C32_Witness ==
    /\ \E q \in QuoteIds : ~ Troubled(q) /\ engineMints[q] >= 1
    /\ \E h \in Hung :
          /\ Troubled(h.q)
          /\ h.q \in TrackedIds(poolQuotes)
          /\ rQuotes[h.q] = "PAID"
          /\ engineMints[h.q] = 0
    /\ checkInterval

\* The proofs a step moves to spent.
MovedToSpent == {x \in Secrets : StateOf(db, x) # "spent" /\ StateOf(db', x) = "spent"}

\* C33: every result of cleanPendingProofs has cleanedCount +
\* remainingPending = totalChecked; a sweep that queried the mint reports as
\* totalChecked the number of inflight proofs it read and as cleanedCount the
\* number of proofs it moved to spent; a call that finds no inflight proof
\* returns four zeros in the step that reads the ledger, with no request to
\* the mint and the ledger unchanged.
C33_SweepCounts ==
    [][(ev'.op = "cleanPendingProofs" /\ ev'.phase = "return")
         => /\ ev'.res.cleanedCount + ev'.res.remainingPending = ev'.res.totalChecked
            /\ IF FirstSegment(ev')
               THEN /\ getProofs(db, mintUrl, "inflight") = {}
                    /\ ev'.res = [cleanedCount |-> 0, cleanedAmount |-> 0,
                                  totalChecked |-> 0, remainingPending |-> 0]
                    /\ \A t \in BagToSet(tasks') :
                          t.pc = "states_req" => CopiesIn(t, tasks') <= CopiesIn(t, tasks)
                    /\ db' = db
                    /\ UNCHANGED remoteVars
               ELSE /\ ev'.res.totalChecked = Cardinality(ev'.task.avail)
                    /\ ev'.res.cleanedCount = Cardinality(MovedToSpent)]_vars

\* What C34 asks of every step.
MintEcashStepsInOrder ==
    /\ \A t \in MintEcashCalls(tasks') :
          /\ t.attempts < maxAttempts
          /\ (t.pc = "mint_req" /\ CopiesIn(t, tasks') > CopiesIn(t, tasks))
               => \E u \in MintEcashCalls(tasks) :
                     u.pc = "check_rsp" /\ u.rk = "ok" /\ u.rst = "PAID" /\ u.q = t.q
    /\ (ev'.op = "mintEcash" /\ ev'.err = "Timeout")
          => /\ ev'.task.attempts + 1 = maxAttempts
             /\ ev'.task.rst \notin {"PAID", "ISSUED"}
             /\ db' = db
             /\ UNCHANGED remoteVars
             /\ tasks' = Del(tasks, ev'.task)
    /\ \A w \in MintEcashCalls(tasks) :
          (w.pc = "check_rsp" /\ w.rk = "ok" /\ w.rst = "ISSUED"
             /\ CopiesIn(w, tasks') < CopiesIn(w, tasks))
          => /\ ev'.phase = "throw"
             /\ db' = db
             /\ UNCHANGED remoteVars
             /\ tasks' = Del(tasks, w)
    /\ \A v \in MintEcashCalls(tasks) :
          (v.pc = "check_rsp" /\ v.rk = "ok" /\ v.rst = "UNPAID"
             /\ v.attempts + 1 = maxAttempts
             /\ CopiesIn(v, tasks') < CopiesIn(v, tasks))
          => ev'.err = "Timeout"

\* C34: a mintEcash call polls with fewer than maxAttempts unpaid polls
\* behind it; it fails with the timeout exactly at the poll that is the
\* maxAttempts-th to find the quote neither paid nor issued, and with a poll
\* that finds it issued, both times with the ledger and the mint left as they
\* are and no issuance requested; it requests the issuance only in the step
\* that reads a poll answered PAID; and every call ends, given that every
\* request is answered.
C34_MintEcashTerminates ==
    /\ [][MintEcashStepsInOrder]_vars
    /\ (MintEcashCalls(tasks) # {}) ~> (MintEcashCalls(tasks) = {})

\* A mintEcash call ended with the timeout after maxAttempts polls.
C34_Witness ==
    /\ ev.op = "mintEcash"
    /\ ev.err = "Timeout"
    /\ ev.task.attempts = maxAttempts - 1
    /\ QuoteStateOf(db, ev.task.q) = "UNPAID"
    /\ db.proofs = {}

\* C35: when the engine sends a mintProofs request for a quote, no mintProofs
\* call of the engine for that quote is in flight and none has succeeded.
C35_NoOverlappingEngineMint ==
    [][\A u \in MintsStarted :
          /\ engineMints[u.q] = 0
          /\ \A t \in BagToSet(tasks) :
                ~ (t.caller = "engine" /\ t.op = "mintProofs" /\ t.q = u.q)]_vars

\* C36: a step in which a sendEcash or payInvoice call writes the ledger
\* leaves in state ready none of the proofs the call had read that are spent
\* at the mint, which are the inputs of its own swap and of the swaps of the
\* calls that ran beside it; and the write of a sendEcash call does not raise
\* the sum of the ready and inflight proofs.
C36_ConcurrentSpendsConserve ==
    [][\A t \in BagToSet(tasks) :
          (/\ t.op \in {"sendEcash", "payInvoice"}
           /\ CopiesIn(t, tasks') < CopiesIn(t, tasks)
           /\ db'.proofs # db.proofs)
          => /\ \A p \in t.avail :
                   p.secret \in rSpent' => StateOf(db', p.secret) # "ready"
             /\ t.op = "sendEcash"
                   => StateSum(db', "ready") + StateSum(db', "inflight")
                        <= StateSum(db, "ready") + StateSum(db, "inflight")]_vars

\* A quote the mint has not issued leaves the tracked set by the purge of a
\* tick after its expiry or by destroy only (removeQuote follows a mint that
\* succeeded or a check that found the quote issued).
PurgedOrDestroyed(q, expiry) ==
    /\ q \notin TrackedIds(poolQuotes)
    /\ now > expiry
    /\ rQuotes[q] # "ISSUED"

\* C37: the engine sends no mintProofs request for a quote that was purged
\* from the tracked set for expiry or dropped by destroy, also when the
\* check that leads to the request was started before the purge.
C37_NoMintAfterPurge ==
    [][\A u \in MintsStarted : ~ PurgedOrDestroyed(u.q, u.expiry)]_vars

\* The positions at which a call awaits the reply of a Protocol Client
\* operation other than loadMint.
ClientRequests ==
    {"states_req", "receive_req", "swap_req", "meltquote_req", "melt_req",
     "meltcheck_req", "quote_req", "check_req", "mint_req"}

\* C38: a request of a Protocol Client operation is pending only when the
\* loadMint of the connection has completed successfully.
C38_ClientUsedAfterLoadMint ==
    \A t \in BagToSet(tasks) : t.pc \in ClientRequests => cashuWallet = "loaded"

\* C39: a step of the wallet leaves every proof stored under another mint
\* identifier as it is, whatever its secret.
C39_OtherMintUntouched ==
    [][\A r \in db.proofs : r.mintUrl # mintUrl => r \in db'.proofs]_vars

\* How quote q leaves the tracked set in a step: by the purge of a tick
\* after its expiry, by a mint of the engine that succeeded, or by a check
\* of the engine that found it issued.
LeavesInOrder(q) ==
    \/ /\ checkInterval
       /\ \E it \in Entries(poolQuotes) : it.quoteId = q /\ now > it.expiry
       /\ ev' = Quiet
       /\ UNCHANGED <<db, remoteVars>>
    \/ /\ ev'.task.caller = "engine" /\ ev'.task.q = q
       /\ ev'.op = "mintProofs" /\ ev'.phase = "return"
       /\ rQuotes[q] = "ISSUED"
    \/ /\ ev'.task.caller = "engine" /\ ev'.task.q = q
       /\ ev'.op = "checkMintQuote" /\ ev'.phase = "return" /\ ev'.res.isIssued

\* C40: with no new registration, under fairness of the timer and progress
\* of time, every tracked quote leaves the tracked set, by a mint that
\* succeeded, an observed issuance or the purge of a tick after its expiry;
\* with the tracked set empty the timer is stopped; and the engine ends up
\* idle for good, whatever becomes of the checks in flight.
C40_EngineReturnsToIdle ==
    /\ [][\A q \in TrackedIds(poolQuotes) \ TrackedIds(poolQuotes') : LeavesInOrder(q)]_vars
    /\ [](Len(poolQuotes) = 0 => ~ checkInterval /\ ~ isRunning)
    /\ \A q \in QuoteIds :
          (q \in TrackedIds(poolQuotes)) ~> (q \notin TrackedIds(poolQuotes))
    /\ <>[](Len(poolQuotes) = 0 /\ ~ checkInterval)

\* The engine is idle after the purge of a quote that was never paid, while
\* a request for that quote still hangs.
C40_Witness ==
    /\ Len(poolQuotes) = 0
    /\ ~ checkInterval
    /\ \E h \in Hung : rQuotes[h.q] = "UNPAID" /\ now > h.expiry

====
